---- MODULE Spec2Model ----
(***************************************************************************)
(* Order lifecycle of the shreegraphicsdesign backend: the order routes    *)
(* (createOrder, setStatus, cancel, addMessage) and the product update     *)
(* route, as request handlers running over a shared document store.        *)
(*                                                                         *)
(* A handler is an async function: it runs without interruption between    *)
(* two awaits, and every await of a database operation is a point where    *)
(* other requests may run.  Each action below is one such stretch of a     *)
(* handler together with the database operation it is waiting for.         *)
(*                                                                         *)
(* Documents are mongoose documents: findById gives the handler a private  *)
(* copy, assignments change that copy, and save() sends the store only the *)
(* paths the handler modified ($set of changed scalar paths, $push of      *)
(* pushed array elements), which the store applies in one write.           *)
(***************************************************************************)
EXTENDS Integers, Sequences, FiniteSets, TLC

VARIABLES products, orders, now, slots, started,
          isActive, isConnected, listeners, podcasts, files

vars == <<products, orders, now, slots, started,
          isActive, isConnected, listeners, podcasts, files>>

(* What the handlers of the orders, of the prices and of the reports leave
   as it is: which products are active, the connection to the database, and
   the podcasts with their files. *)
elsewhere == <<isActive, isConnected, listeners, podcasts, files>>

----------------------------------------------------------------------------
(* Bounds of the model                                                     *)

MaxOrders == 1
MaxListed == 2
MaxStarted == 3
MaxClock == 2
MaxRequests == 4

(* Requests that can be in flight at the same time. *)
Slots == {1, 2}

----------------------------------------------------------------------------
(* Principals (supplied by the protect middleware)                         *)

Users == {"admin", "u1", "u2"}

role(u) == IF u = "admin" THEN "admin" ELSE "user"

(* authorize(needed): the middleware lets the request through when the caller
   has the role, and answers 403 otherwise. *)
authorize(caller, needed) == role(caller) = needed

----------------------------------------------------------------------------
(* Catalog                                                                 *)

ProductIds == {"p1", "p2", "p3", "p4", "p5", "p6"}

(* The tiers a product's price map has. *)
Tiers == {"base", "premium", "enterprise"}

tierPriceOrBase(priceMap, tier) ==
    IF tier \in Tiers /\ priceMap[tier] # 0 THEN priceMap[tier] ELSE priceMap["base"]

(* Names every object has a property for, inherited from Object.prototype. *)
PrototypeKeys == {"constructor"}

(* The value of such a property: a function, which is truthy and no number. *)
Inherited == -2

(* product.price[tier]: 0 stands for a missing or falsy price. *)
tierPriceOf(priceMap, tier) ==
    IF tier \in Tiers THEN priceMap[tier]
    ELSE IF tier \in PrototypeKeys THEN Inherited
    ELSE 0

InitialProducts ==
    [p \in ProductIds |->
        IF p = "p1" THEN [base |-> 500, premium |-> 700, enterprise |-> 0]
                    ELSE [base |-> 3, premium |-> 0, enterprise |-> 0]]

----------------------------------------------------------------------------
(* Orders                                                                  *)

StatusesOrAnything == {"pending", "confirmed", "in-progress", "review", "revision",
                       "completed", "cancelled", "bogus"}

Statuses == {"pending", "confirmed", "in-progress", "review", "revision",
             "completed", "cancelled"}

Terminal == {"completed", "cancelled"}

(* actualDeliveryDate before it is set. *)
Unset == 0

(* The result of a find: <<>> for null, <<doc>> for a document. *)
findOrderById(id) == IF id \in 1..Len(orders) THEN <<orders[id]>> ELSE <<>>

(* The order number the Order model gives the i-th order: a text that is
   unique to the order and is no ObjectId. *)
Digits == <<"1", "2", "3", "4", "5", "6", "7", "8", "9">>

orderNumberOf(i) == <<"O", Digits[i]>>

(* Order.findOne({ orderNumber: text }) *)
findOrderByNumber(text) ==
    IF \E i \in 1..Len(orders) : orders[i].orderNumber = text
    THEN <<orders[CHOOSE i \in 1..Len(orders) : orders[i].orderNumber = text]>>
    ELSE <<>>

(* req.params.id is the text of an ObjectId or some other text. *)
byId(i) == [id |-> <<i>>, text |-> <<>>]

byNumber(text) == [id |-> <<>>, text |-> text]

(* The cast findById makes of its argument: <<>> when it throws CastError. *)
castObjectId(ref) == ref.id

(* await Order.findById(req.params.id): it throws, or gives null or the
   document. *)
findById(ref) ==
    IF castObjectId(ref) = <<>>
    THEN [threw |-> TRUE, doc |-> <<>>]
    ELSE [threw |-> FALSE, doc |-> findOrderById(castObjectId(ref)[1])]

(* The fields the Order model adds when a new order is saved. *)
insertOrder(doc, t) ==
    [id |-> doc.id,
     orderNumber |-> orderNumberOf(doc.id),
     customer |-> doc.customer,
     items |-> doc.items,
     pricing |-> doc.pricing,
     shippingAddress |-> doc.shippingAddress,
     status |-> doc.status,
     communication |-> doc.communication,
     actualDeliveryDate |-> doc.actualDeliveryDate,
     createdAt |-> t]

findProductById(p) == IF p \in DOMAIN products THEN <<products[p]>> ELSE <<>>

----------------------------------------------------------------------------
(* Request inputs                                                          *)

(* Items a client sends: tier "" and packageType "" stand for an absent field,
   quantity 0 for an absent or falsy quantity.  "p9" names no product, "gold"
   no tier of a price map, and p1 has no enterprise price to begin with.
   customization is the map of the item as the pairs of the JSON text, in the
   order they are written; <<>> when the item has none. *)
mkItem(p, t, k, q) ==
    [product |-> p, tier |-> t, packageType |-> k, quantity |-> q, customization |-> <<>>]

withCustomization(item, pairs) == [item EXCEPT !.customization = pairs]

(* The plain item: the base tier and quantity 1, both by default. *)
PlainItem == mkItem("p2", "", "", 0)

(* The other item that is in order has options chosen, one of them under a
   number as its name. *)
GoodItems ==
    { withCustomization(mkItem("p1", "base", "", 2),
                        <<<<"size", "L">>, <<"2", "x">>, <<"color", "red">>>>),
      PlainItem }

(* Tiers that have no price: enterprise has a falsy one, gold (given under the
   legacy name, for a product that has a base price) is no key of the price
   map, and constructor is no key of it either but a name every object has a
   property for. *)
DefectiveItems ==
    { mkItem("p1", "enterprise", "", 1),
      mkItem("p2", "", "gold", 1),
      mkItem("p9", "base", "", 1),
      mkItem("p1", "constructor", "", 1) }

(* A negative quantity, with both names of the tier given. *)
OddItems == { mkItem("p1", "premium", "base", -1) }

ItemInputs == GoodItems \cup DefectiveItems \cup OddItems

MaxItems == 2

(* The item lists of up to MaxItems items: those of items that are in order,
   and those with one defective or odd item at any position among plain
   items. *)
ItemLists ==
    { l \in UNION { [1..n -> ItemInputs] : n \in 0..MaxItems } :
        \/ \A k \in DOMAIN l : l[k] \in GoodItems
        \/ /\ Cardinality({k \in DOMAIN l : l[k] \notin GoodItems}) = 1
           /\ \A k \in DOMAIN l : l[k] \in GoodItems => l[k] = PlainItem }

(* shippingAddress of a request: <<>> when the body has none. *)
mkAddress(n, e, t) == [fullName |-> n, email |-> e, phone |-> t]

FullAddress == <<mkAddress("n", "e", "t")>>

BadAddresses ==
    { <<>>, <<mkAddress("", "e", "t")>>, <<mkAddress("n", "", "t")>>,
      <<mkAddress("n", "e", "")>> }

(* Request bodies: every item list with a full address, and one item list with
   each defective address. *)
mkBody(items, addr) == [items |-> items, shippingAddress |-> addr]

CreateBodies ==
    { mkBody(items, FullAddress) : items \in ItemLists }
    \cup { mkBody(<<PlainItem>>, addr) : addr \in BadAddresses }

(* The bodies the order lifecycle is explored with: one order that is accepted
   and one that is refused. *)
LifecycleBodies ==
    { mkBody(<<mkItem("p1", "base", "", 2)>>, FullAddress),
      mkBody(<<mkItem("p1", "enterprise", "", 1)>>, FullAddress) }

(* The customer who places orders; "u2" is then a caller who owns none. *)
CreateCallers == {"u1"}

(* status values a setStatus request carries; "bogus" is outside the enum. *)
StatusInputs == {"pending", "completed", "bogus"}

(* message of a setStatus request: "" when absent. *)
NoteInputs == {"", "note"}

(* The :id of a request: the id or the order number of an order that exists
   or may come to exist. *)
OrderRefs ==
    { byId(i) : i \in 1..MaxListed } \cup { byNumber(orderNumberOf(i)) : i \in 1..MaxListed }

----------------------------------------------------------------------------
(* Request slots                                                           *)

Idle == [kind |-> "idle", pc |-> "done", code |-> 0]

Free(s) == slots[s].pc = "done"

(* A request arrives on the lowest free slot. *)
Arrives(s) ==
    /\ Free(s)
    /\ \A t \in Slots : t < s => ~Free(t)
    /\ started < MaxStarted

(* Orders that exist or are being created. *)
OrdersClaimed ==
    Len(orders) + Cardinality({s \in Slots : slots[s].kind = "create" /\ slots[s].pc # "done"})

(* The response ends the request.  Of a request that failed only its kind and
   its status code are kept; a request that succeeded keeps what it did. *)
Failed(kind, c) == [kind |-> kind, pc |-> "done", code |-> c]

Respond(s, c) ==
    [slots EXCEPT ![s] = IF c >= 400 THEN Failed(@.kind, c)
                         ELSE [@ EXCEPT !.pc = "done", !.code = c]]

----------------------------------------------------------------------------
(* createOrder: POST /orders                                               *)

(* const tier = item.tier || item.packageType || "base" *)
resolveTier(item) ==
    IF item.tier # "" THEN item.tier
    ELSE IF item.packageType # "" THEN item.packageType
    ELSE "base"

resolveQtyAsGiven(item) == item.quantity

(* const qty = item.quantity || 1 *)
resolveQty(item) == IF item.quantity # 0 THEN item.quantity ELSE 1

(* Money in pricing is held in units of 1/TaxDen, so that subtotal * 0.1 is
   exact: pricing.x here is TaxDen times the amount the code stores. *)
TaxNum == 1
TaxDen == 10

computeTax(subtotal) == (subtotal * TaxNum) \div TaxDen

computePricing(subtotal) ==
    [subtotal |-> subtotal,
     tax |-> computeTax(subtotal),
     total |-> subtotal + computeTax(subtotal)]

lineAmountNoQty(tierPrice, qty) == TaxDen * tierPrice

(* subtotal += tierPrice * qty *)
lineAmount(tierPrice, qty) == TaxDen * tierPrice * qty

(* Object.entries(map): the properties whose name is an array index come
   first, in ascending order, then the others in the order they were added. *)
RECURSIVE indexEntries(_, _)
indexEntries(pairs, d) ==
    IF d > Len(Digits) THEN <<>>
    ELSE SelectSeq(pairs, LAMBDA e : e[1] = Digits[d]) \o indexEntries(pairs, d + 1)

isIndexKey(key) == \E d \in DOMAIN Digits : Digits[d] = key

objectEntriesAsWritten(pairs) == pairs

objectEntries(pairs) ==
    indexEntries(pairs, 1) \o SelectSeq(pairs, LAMBDA e : ~isIndexKey(e[1]))

(* .map(([key, value]) => ({ optionName: key, selectedValue: value })) *)
customizationsOf(pairs) ==
    [k \in DOMAIN objectEntries(pairs) |->
        [optionName |-> objectEntries(pairs)[k][1],
         selectedValue |-> objectEntries(pairs)[k][2]]]

orderItem(item, tier, qty, tierPrice) ==
    [product |-> item.product, packageType |-> tier, quantity |-> qty, price |-> tierPrice,
     customizations |-> customizationsOf(item.customization)]

(* The sum of the handler once a price that is no number has entered it. *)
NaN == -3

(* subtotal += tierPrice * qty *)
addToSubtotal(subtotal, tierPrice, qty) ==
    IF subtotal = NaN \/ tierPrice = Inherited THEN NaN
    ELSE subtotal + lineAmount(tierPrice, qty)

schemaAcceptsAnything(doc) == TRUE

(* The validation of the Order model in save(): the price of an item is a
   number and its quantity a positive one. *)
schemaAccepts(doc) ==
    \A k \in DOMAIN doc.items : doc.items[k].price >= 0 /\ doc.items[k].quantity >= 1

newOrderConfirmed(id, customer, orderItems, subtotal, addr) ==
    [id |-> id,
     customer |-> customer,
     items |-> orderItems,
     pricing |-> computePricing(subtotal),
     shippingAddress |-> addr,
     status |-> "confirmed",
     communication |-> <<>>,
     actualDeliveryDate |-> Unset]

newOrder(id, customer, orderItems, subtotal, addr) ==
    [id |-> id,
     customer |-> customer,
     items |-> orderItems,
     pricing |-> computePricing(subtotal),
     shippingAddress |-> addr,
     status |-> "pending",
     communication |-> <<>>,
     actualDeliveryDate |-> Unset]

(* The validation at the head of the handler: the response code it ends with,
   or 0 when the request goes on.  Reading a field of an absent
   shippingAddress throws, which the handler's catch answers with 500. *)
createValidation(items, addr) ==
    IF Len(items) = 0 THEN 400
    ELSE IF addr = <<>> THEN 500
    ELSE IF addr[1].fullName = "" THEN 400
    ELSE IF addr[1].email = "" THEN 400
    ELSE IF addr[1].phone = "" THEN 400
    ELSE 0

CreateBegin(s, callers, bodies, max) ==
    /\ Arrives(s)
    /\ OrdersClaimed < max
    /\ \E caller \in callers, body \in bodies :
         LET items == body.items
             addr == body.shippingAddress
             v == createValidation(items, addr)
         IN
         slots' = [slots EXCEPT ![s] =
            IF v # 0
            THEN Failed("create", v)
            ELSE [kind |-> "create", pc |-> "item", code |-> 0,
                  caller |-> caller, items |-> items, addr |-> addr[1],
                  idx |-> 1, orderItems |-> <<>>, subtotal |-> 0,
                  product |-> findProductById(items[1].product)]]
    /\ started' = started + 1
    /\ UNCHANGED <<products, orders, now>>
    /\ UNCHANGED elsewhere

(* One turn of the loop over items, with the product the previous turn (or the
   head of the handler) asked the store for; after the last item, the order is
   built and saved. *)
CreateItem(s) ==
    LET r == slots[s]
        item == r.items[r.idx]
        tier == resolveTier(item)
        tierPrice == tierPriceOf(r.product[1], tier)
        qty == resolveQty(item)
        subtotal == addToSubtotal(r.subtotal, tierPrice, qty)
        orderItems == Append(r.orderItems, orderItem(item, tier, qty, tierPrice))
    IN
    /\ r.kind = "create" /\ r.pc = "item"
    /\ IF r.product = <<>> \/ tierPrice = 0
       THEN /\ slots' = Respond(s, 400)
            /\ UNCHANGED orders
       ELSE IF r.idx < Len(r.items)
       THEN /\ slots' = [slots EXCEPT ![s] =
                  [r EXCEPT !.idx = r.idx + 1, !.orderItems = orderItems,
                            !.subtotal = subtotal,
                            !.product = findProductById(r.items[r.idx + 1].product)]]
            /\ UNCHANGED orders
       ELSE IF ~schemaAccepts(newOrder(Len(orders) + 1, r.caller, orderItems, subtotal,
                                       r.addr))
       THEN /\ slots' = Respond(s, 500)
            /\ UNCHANGED orders
       ELSE /\ orders' = Append(orders,
                  insertOrder(newOrder(Len(orders) + 1, r.caller, orderItems, subtotal,
                                       r.addr), now))
            /\ slots' = [slots EXCEPT ![s] =
                  [r EXCEPT !.pc = "done", !.code = 201, !.orderItems = orderItems,
                            !.subtotal = subtotal]]
    /\ UNCHANGED <<products, now, started>>
    /\ UNCHANGED elsewhere

----------------------------------------------------------------------------
(* save() of a loaded order document                                       *)

(* What a handler changed on its copy of the document: status and date are
   <<>> when the path was not modified, <<v>> when it was set to v. *)
mkDelta(status, push, date) == [status |-> status, push |-> push, date |-> date]

(* doc.status = v marks the path modified only when v differs from the value
   the document was loaded with. *)
setPath(loaded, v) == IF v = loaded THEN <<>> ELSE <<v>>

saveOrderRepricing(stored, delta) ==
    [stored EXCEPT
        !.status = IF delta.status = <<>> THEN @ ELSE delta.status[1],
        !.communication = Append(@, delta.push),
        !.actualDeliveryDate = IF delta.date = <<>> THEN @ ELSE delta.date[1],
        !.pricing = computePricing(0)]

(* The store applies the update in one write: $set of the modified paths and
   $push of the new communication entry. *)
saveOrder(stored, delta) ==
    [stored EXCEPT
        !.status = IF delta.status = <<>> THEN @ ELSE delta.status[1],
        !.communication = Append(@, delta.push),
        !.actualDeliveryDate = IF delta.date = <<>> THEN @ ELSE delta.date[1]]

mkEntry(sender, content, type, createdAt) ==
    [sender |-> sender, content |-> content, type |-> type, createdAt |-> createdAt]

OrderSaveWholeDocument(s) ==
    LET r == slots[s] IN
    /\ orders' = [orders EXCEPT ![r.doc[1].id] = saveOrder(r.doc[1], r.delta)]
    /\ UNCHANGED <<products, now, started>>

(* await order.save() *)
OrderSave(s) ==
    LET r == slots[s] IN
    /\ orders' = [orders EXCEPT ![r.doc[1].id] = saveOrder(@, r.delta)]
    /\ UNCHANGED <<products, now, started>>

----------------------------------------------------------------------------
(* setStatus: PUT /orders/:id/status                                       *)

(* content: message || `Order status changed from ${oldStatus} to ${status}` *)
statusContent(note, oldStatus, status) ==
    IF note # "" THEN <<note>> ELSE <<"changed", oldStatus, status>>

stampsWhenCompleted(status, loadedDate) == status = "completed"

(* if (status === 'completed' && !order.actualDeliveryDate) *)
stampsDelivery(status, loadedDate) == status = "completed" /\ loadedDate = Unset

statusDelta(doc, caller, status, note, t) ==
    mkDelta(setPath(doc.status, status),
            mkEntry(caller, statusContent(note, doc.status, status), "message", t),
            IF stampsDelivery(status, doc.actualDeliveryDate) THEN <<t>> ELSE <<>>)

(* findById, and findOne by orderNumber when it throws or finds nothing. *)
lookupOrder(ref) ==
    LET byTheId == IF findById(ref).threw THEN <<>> ELSE findById(ref).doc
    IN  IF byTheId # <<>> THEN byTheId
        ELSE IF ref.text # <<>> THEN findOrderByNumber(ref.text)
        ELSE <<>>

(* authorize('admin') and the express-validator chain, then the lookup. *)
StatusBegin(s) ==
    /\ Arrives(s)
    /\ \E caller \in Users, ref \in OrderRefs, status \in StatusInputs, note \in NoteInputs :
         slots' = [slots EXCEPT ![s] =
            IF ~authorize(caller, "admin")
            THEN Failed("status", 403)
            ELSE IF status \notin Statuses
            THEN Failed("status", 400)
            ELSE [kind |-> "status", pc |-> "loaded", code |-> 0,
                  caller |-> caller, status |-> status, note |-> note,
                  doc |-> lookupOrder(ref)]]
    /\ started' = started + 1
    /\ UNCHANGED <<products, orders, now>>
    /\ UNCHANGED elsewhere

StatusContinue(s) ==
    LET r == slots[s] IN
    /\ r.kind = "status" /\ r.pc = "loaded"
    /\ slots' = IF r.doc = <<>>
                THEN Respond(s, 404)
                ELSE [slots EXCEPT ![s] =
                        [kind |-> "status", pc |-> "saving", code |-> 0,
                         caller |-> r.caller, status |-> r.status, doc |-> r.doc,
                         delta |-> statusDelta(r.doc[1], r.caller, r.status, r.note, now)]]
    /\ UNCHANGED <<products, orders, now, started>>
    /\ UNCHANGED elsewhere

StatusSave(s) ==
    /\ slots[s].kind = "status" /\ slots[s].pc = "saving"
    /\ OrderSave(s)
    /\ slots' = Respond(s, 200)
    /\ UNCHANGED elsewhere

----------------------------------------------------------------------------
(* cancel: PUT /orders/:id/cancel                                          *)

canAccessAnyone(caller, doc) == TRUE

canAccess(caller, doc) == role(caller) = "admin" \/ doc.customer = caller

cancellableUnlessCompleted(status) == status # "completed"

(* if (['completed', 'cancelled'].includes(order.status)) return 400 *)
cancellable(status) == status \notin Terminal

cancelDelta(doc, caller, t) ==
    mkDelta(setPath(doc.status, "cancelled"),
            mkEntry(caller, <<"cancelled by", IF role(caller) = "admin" THEN "admin" ELSE "customer">>,
                    "message", t),
            <<>>)

CancelBegin(s) ==
    /\ Arrives(s)
    /\ \E caller \in Users, ref \in OrderRefs :
         slots' = [slots EXCEPT ![s] =
            IF findById(ref).threw
            THEN Failed("cancel", 500)
            ELSE [kind |-> "cancel", pc |-> "loaded", code |-> 0,
                  caller |-> caller, doc |-> findById(ref).doc]]
    /\ started' = started + 1
    /\ UNCHANGED <<products, orders, now>>
    /\ UNCHANGED elsewhere

CancelContinue(s) ==
    LET r == slots[s] IN
    /\ r.kind = "cancel" /\ r.pc = "loaded"
    /\ slots' = IF r.doc = <<>> THEN Respond(s, 404)
                ELSE IF ~canAccess(r.caller, r.doc[1]) THEN Respond(s, 403)
                ELSE IF ~cancellable(r.doc[1].status) THEN Respond(s, 400)
                ELSE [slots EXCEPT ![s] =
                        [kind |-> "cancel", pc |-> "saving", code |-> 0,
                         caller |-> r.caller, doc |-> r.doc,
                         delta |-> cancelDelta(r.doc[1], r.caller, now)]]
    /\ UNCHANGED <<products, orders, now, started>>
    /\ UNCHANGED elsewhere

CancelSave(s) ==
    /\ slots[s].kind = "cancel" /\ slots[s].pc = "saving"
    /\ OrderSave(s)
    /\ slots' = Respond(s, 200)
    /\ UNCHANGED elsewhere

----------------------------------------------------------------------------
(* addMessage: POST /orders/:id/communication                              *)

(* message of a request after trim(): "" is an empty message. *)
MessageInputs == {"", "hi"}

(* type of a request: "" when absent; "bogus" is outside the enum. *)
TypeInputs == {"", "revision_request", "bogus"}

MessageTypes == {"message", "file_upload", "revision_request", "status_update"}

resolveTypeAsGiven(type) == type

(* const { message, type = 'message' } = req.body *)
resolveType(type) == IF type = "" THEN "message" ELSE type

messageValid(message, type) == message # "" /\ (type = "" \/ type \in MessageTypes)

messageDelta(caller, message, type, t) ==
    mkDelta(<<>>, mkEntry(caller, <<message>>, resolveType(type), t), <<>>)

MessageBegin(s) ==
    /\ Arrives(s)
    /\ \E caller \in Users, ref \in OrderRefs, message \in MessageInputs, type \in TypeInputs :
         slots' = [slots EXCEPT ![s] =
            IF ~messageValid(message, type)
            THEN Failed("message", 400)
            ELSE IF findById(ref).threw
            THEN Failed("message", 500)
            ELSE [kind |-> "message", pc |-> "loaded", code |-> 0,
                  caller |-> caller, message |-> message, type |-> type,
                  doc |-> findById(ref).doc]]
    /\ started' = started + 1
    /\ UNCHANGED <<products, orders, now>>
    /\ UNCHANGED elsewhere

MessageContinue(s) ==
    LET r == slots[s] IN
    /\ r.kind = "message" /\ r.pc = "loaded"
    /\ slots' = IF r.doc = <<>> THEN Respond(s, 404)
                ELSE IF ~canAccess(r.caller, r.doc[1]) THEN Respond(s, 403)
                ELSE [slots EXCEPT ![s] =
                        [kind |-> "message", pc |-> "saving", code |-> 0,
                         caller |-> r.caller, doc |-> r.doc,
                         delta |-> messageDelta(r.caller, r.message, r.type, now)]]
    /\ UNCHANGED <<products, orders, now, started>>
    /\ UNCHANGED elsewhere

MessageSave(s) ==
    /\ slots[s].kind = "message" /\ slots[s].pc = "saving"
    /\ OrderSave(s)
    /\ slots' = Respond(s, 201)
    /\ UNCHANGED elsewhere

----------------------------------------------------------------------------
(* Reading orders: GET /orders/:id and GET /orders                         *)

(* The answer of GET /orders/:id: the status code and the order in the body,
   <<>> when the body has none. *)
mkAnswer(c, order) == [code |-> c, order |-> order]

getOrder(caller, doc) ==
    IF doc = <<>> THEN mkAnswer(404, <<>>)
    ELSE IF ~canAccess(caller, doc[1]) THEN mkAnswer(403, <<>>)
    ELSE mkAnswer(200, doc)

GetBegin(s) ==
    /\ Arrives(s)
    /\ started' = started + 1
    /\ \E caller \in Users, ref \in OrderRefs :
         slots' = [slots EXCEPT ![s] =
            IF findById(ref).threw
            THEN [kind |-> "get", pc |-> "done", code |-> 500, caller |-> caller,
                  order |-> <<>>]
            ELSE [kind |-> "get", pc |-> "loaded", code |-> 0, caller |-> caller,
                  doc |-> findById(ref).doc]]
    /\ UNCHANGED <<products, orders, now>>
    /\ UNCHANGED elsewhere

GetContinue(s) ==
    LET r == slots[s]
        a == getOrder(r.caller, r.doc)
    IN
    /\ r.kind = "get" /\ r.pc = "loaded"
    /\ slots' = [slots EXCEPT ![s] =
          [kind |-> "get", pc |-> "done", code |-> a.code, caller |-> r.caller,
           order |-> a.order]]
    /\ UNCHANGED <<products, orders, now, started>>
    /\ UNCHANGED elsewhere

(* req.query of GET /orders: status "" , startDate 0, endDate 0 and search
   <<>> stand for an absent parameter; page and limit are what parseInt and
   the defaults make of the request. *)
mkQuery(status, startDate, endDate, search, page, limit) ==
    [status |-> status, startDate |-> startDate, endDate |-> endDate,
     search |-> search, page |-> page, limit |-> limit]

ListQueries ==
    { mkQuery("", 0, 0, <<>>, 1, 10),
      mkQuery("cancelled", 0, 0, <<"o">>, 1, 10),
      mkQuery("", 2, 0, <<>>, 1, 10),
      mkQuery("", 0, 1, <<"2">>, 1, 10),
      mkQuery("", 0, 0, <<>>, 2, 1) }

(* $options: 'i' *)
upper(c) == IF c = "o" THEN "O" ELSE c

(* { $regex: search, $options: 'i' } for a search text without
   metacharacters: the text occurs somewhere in the order number. *)
regexMatches(search, text) ==
    \E k \in 1..(Len(text) - Len(search) + 1) :
        \A j \in 1..Len(search) : upper(text[k + j - 1]) = upper(search[j])

scopedToNobody(caller) == <<>>

(* query.customer: <<>> when the query has no customer condition. *)
scopedTo(caller) == IF role(caller) # "admin" THEN <<caller>> ELSE <<>>

matchesQuery(o, customer, q) ==
    /\ customer = <<>> \/ o.customer = customer[1]
    /\ q.status = "" \/ o.status = q.status
    /\ q.startDate = 0 \/ o.createdAt >= q.startDate
    /\ q.endDate = 0 \/ o.createdAt <= q.endDate
    /\ q.search = <<>> \/ regexMatches(q.search, o.orderNumber)

(* The orders of a store that a query selects. *)
matching(store, customer, q) ==
    { i \in 1..Len(store) : matchesQuery(store[i], customer, q) }

(* The orders in which find() may return them under sort({ createdAt: -1 }):
   every arrangement of the selected orders with createdAt not increasing;
   orders of the same instant come in any order. *)
sortedLists(store, ids) ==
    { l \in [1..Cardinality(ids) -> ids] :
        /\ \A j, k \in DOMAIN l : j # k => l[j] # l[k]
        /\ \A j, k \in DOMAIN l : j < k => store[l[j]].createdAt >= store[l[k]].createdAt }

(* skip((page - 1) * limit).limit(limit) *)
pageOf(l, page, limit) ==
    LET skip == (page - 1) * limit
        last == IF skip + limit < Len(l) THEN skip + limit ELSE Len(l)
    IN  SubSeq(l, skip + 1, last)

(* Math.ceil(total / limit) *)
pagesOf(total, limit) == (total + limit - 1) \div limit

ListBegin(s) ==
    /\ Arrives(s)
    /\ started' = started + 1
    /\ \E caller \in Users, q \in ListQueries :
       \E l \in sortedLists(orders, matching(orders, scopedTo(caller), q)) :
         slots' = [slots EXCEPT ![s] =
            [kind |-> "list", pc |-> "counting", code |-> 0, caller |-> caller,
             query |-> q,
             found |-> [k \in DOMAIN pageOf(l, q.page, q.limit) |->
                           orders[pageOf(l, q.page, q.limit)[k]]]]]
    /\ UNCHANGED <<products, orders, now>>
    /\ UNCHANGED elsewhere

(* countDocuments(query) and the response. *)
ListCount(s) ==
    LET r == slots[s]
        total == Cardinality(matching(orders, scopedTo(r.caller), r.query))
    IN
    /\ r.kind = "list" /\ r.pc = "counting"
    /\ slots' = [slots EXCEPT ![s] =
          [kind |-> "list", pc |-> "done", code |-> 200, caller |-> r.caller,
           query |-> r.query, orders |-> r.found, count |-> Len(r.found),
           total |-> total, pages |-> pagesOf(total, r.query.limit)]]
    /\ UNCHANGED <<products, orders, now, started>>
    /\ UNCHANGED elsewhere

----------------------------------------------------------------------------
(* product update: PUT /products/:id                                       *)

(* req.body.price: a tier maps to -1 when the body leaves it undefined. *)
Undefined == -1

mkPriceBody(b, p, e) == [base |-> b, premium |-> p, enterprise |-> e]

PriceBodies ==
    { mkPriceBody(9, Undefined, Undefined), mkPriceBody(Undefined, 0, 9) }

ProductRefs == {"p1", "p9"}

(* if (req.body.price.x !== undefined) product.price.x = Number(...) *)
updatePrice(priceMap, body) ==
    [t \in Tiers |-> IF body[t] # Undefined THEN body[t] ELSE priceMap[t]]

(* save() of the product: $set of the price paths whose value changed. *)
saveProduct(stored, loaded, body) ==
    [t \in Tiers |-> IF updatePrice(loaded, body)[t] # loaded[t]
                     THEN updatePrice(loaded, body)[t] ELSE stored[t]]

ProductBegin(s) ==
    /\ Arrives(s)
    /\ \E caller \in {"admin", "u1"}, ref \in ProductRefs, body \in PriceBodies :
         slots' = [slots EXCEPT ![s] =
            IF ~authorize(caller, "admin")
            THEN Failed("product", 403)
            ELSE [kind |-> "product", pc |-> "loaded", code |-> 0,
                  ref |-> ref, body |-> body, doc |-> findProductById(ref)]]
    /\ started' = started + 1
    /\ UNCHANGED <<products, orders, now>>
    /\ UNCHANGED elsewhere

(* A product update that also re-prices the items of stored orders. *)
repriced(order, ref, priceMap) ==
    LET items == order.items IN
    [order EXCEPT !.items =
        [i \in 1..Len(items) |->
            IF items[i].product = ref /\ items[i].packageType \in Tiers
            THEN [items[i] EXCEPT !.price = priceMap[items[i].packageType]]
            ELSE items[i]]]

ProductSaveRepricing(s) ==
    LET r == slots[s] IN
    /\ r.kind = "product" /\ r.pc = "loaded"
    /\ IF r.doc = <<>>
       THEN /\ slots' = Respond(s, 404)
            /\ UNCHANGED <<products, orders>>
       ELSE /\ products' = [products EXCEPT ![r.ref] = saveProduct(@, r.doc[1], r.body)]
            /\ orders' = [i \in 1..Len(orders) |-> repriced(orders[i], r.ref, products'[r.ref])]
            /\ slots' = Respond(s, 200)
    /\ UNCHANGED <<now, started>>
    /\ UNCHANGED elsewhere

ProductSave(s) ==
    LET r == slots[s] IN
    /\ r.kind = "product" /\ r.pc = "loaded"
    /\ IF r.doc = <<>>
       THEN /\ slots' = Respond(s, 404)
            /\ UNCHANGED products
       ELSE /\ products' = [products EXCEPT ![r.ref] = saveProduct(@, r.doc[1], r.body)]
            /\ slots' = Respond(s, 200)
    /\ UNCHANGED <<orders, now, started>>
    /\ UNCHANGED elsewhere

----------------------------------------------------------------------------
(* Admin dashboard: GET /admin/analytics (getAnalyticsData)                *)
(*                                                                         *)
(* The handler awaits one aggregation after the other; each is a read of   *)
(* the store at its own moment.  The reads of the users, the product       *)
(* categories and the custom requests touch no order and are left out.     *)

(* null in a pipeline: what "$field" gives for a field the document lacks. *)
Null == -4

(* "$taxAmount" and "$shippingCost" of a stored order.  createOrder writes
   neither path (it writes pricing.tax), so the pipeline sees what the schema
   makes of them: nothing at all, or a default of 0. *)
TopLevelAmounts == {Null, 0}

(* $sum of $map over items of $multiply: ["$$i.price", "$$i.quantity"] *)
RECURSIVE itemsAmount(_)
itemsAmount(items) ==
    IF items = <<>> THEN 0
    ELSE items[1].price * items[1].quantity + itemsAmount(Tail(items))

(* $add: null as soon as one operand is null.  Amounts are in tenths. *)
addAmounts(a, b, c) == IF Null \in {a, b, c} THEN Null ELSE a + b + c

(* $project total *)
projectTotal(o, amount) == addAmounts(TaxDen * itemsAmount(o.items), amount, amount)

(* $group { $sum: "$total" }: a total that is no number adds nothing. *)
RECURSIVE sumTotals(_, _)
sumTotals(store, amount) ==
    IF store = <<>> THEN 0
    ELSE (IF projectTotal(store[1], amount) = Null THEN 0
          ELSE projectTotal(store[1], amount))
         + sumTotals(Tail(store), amount)

(* revenueAgg[0]?.total || 0 *)
totalRevenueOf(store, amount) == IF store = <<>> THEN 0 ELSE sumTotals(store, amount)

(* $dateToString "%Y-%m-%d" and "%Y-%m" of createdAt: two instants of the
   clock make a day, four a month. *)
dayOf(t) == t \div 2

monthOf(t) == t \div 4

(* $sort: { _id: 1 } of the group keys *)
RECURSIVE ascending(_)
ascending(S) ==
    IF S = {} THEN <<>>
    ELSE LET m == CHOOSE x \in S : \A y \in S : x <= y
         IN  <<m>> \o ascending(S \ {m})

onDay(store, d) == SelectSeq(store, LAMBDA o : dayOf(o.createdAt) = d)

inMonth(store, m) == SelectSeq(store, LAMBDA o : monthOf(o.createdAt) = m)

ordersDailyOf(store) ==
    LET d == ascending({dayOf(store[i].createdAt) : i \in DOMAIN store})
    IN  [k \in DOMAIN d |-> [day |-> d[k], count |-> Len(onDay(store, d[k]))]]

revenueDailyOf(store, amount) ==
    LET d == ascending({dayOf(store[i].createdAt) : i \in DOMAIN store})
    IN  [k \in DOMAIN d |-> [day |-> d[k], revenue |-> sumTotals(onDay(store, d[k]), amount)]]

revenueMonthlyOf(store, amount) ==
    LET m == ascending({monthOf(store[i].createdAt) : i \in DOMAIN store})
    IN  [k \in DOMAIN m |->
            [month |-> m[k], revenue |-> sumTotals(inMonth(store, m[k]), amount)]]

(* $group { _id: "$status", count: { $sum: 1 } }: one entry per status that
   some order has, in no particular order. *)
orderStatusStatsOf(store) ==
    { [status |-> st, count |-> Len(SelectSeq(store, LAMBDA o : o.status = st))] :
        st \in {store[i].status : i \in DOMAIN store} }

(* $unwind "$items" and $group by "$items.product": the products some item
   names, and $sum of "$items.quantity" for each. *)
RECURSIVE quantityIn(_, _)
quantityIn(items, p) ==
    IF items = <<>> THEN 0
    ELSE (IF items[1].product = p THEN items[1].quantity ELSE 0) + quantityIn(Tail(items), p)

RECURSIVE soldOf(_, _)
soldOf(store, p) ==
    IF store = <<>> THEN 0
    ELSE quantityIn(store[1].items, p) + soldOf(Tail(store), p)

soldProducts(store) ==
    UNION { { store[i].items[k].product : k \in DOMAIN store[i].items } : i \in DOMAIN store }

(* $sort: { sold: -1 }: every arrangement with sold not increasing; products
   that sold the same come in any order. *)
RECURSIVE bySoldDescending(_, _)
bySoldDescending(store, S) ==
    IF S = {} THEN { <<>> }
    ELSE UNION { { <<p>> \o l : l \in bySoldDescending(store, S \ {p}) } :
                 p \in { x \in S : \A y \in S : soldOf(store, x) >= soldOf(store, y) } }

(* $limit: 5 *)
TopLimit == 5

limitToAll(l, n) == l

limitTo(l, n) == SubSeq(l, 1, IF Len(l) < n THEN Len(l) ELSE n)

(* $lookup from products and $unwind "$product": an entry whose product the
   catalog lacks is dropped. *)
lookupProduct(store, l) ==
    LET found == SelectSeq(l, LAMBDA p : findProductById(p) # <<>>)
    IN  [k \in DOMAIN found |->
            [id |-> found[k], sold |-> soldOf(store, found[k]),
             product |-> findProductById(found[k])[1]]]

(* The lists the topProducts pipeline may answer with. *)
topProductsOf(store) ==
    { lookupProduct(store, limitTo(l, TopLimit)) : l \in bySoldDescending(store, soldProducts(store)) }

(* router.get("/", protect, authorize("admin"), getAnalyticsData) *)
AnalyticsBegin(s) ==
    /\ Arrives(s)
    /\ started' = started + 1
    /\ \E caller \in Users, amount \in TopLevelAmounts :
         slots' = [slots EXCEPT ![s] =
            IF ~authorize(caller, "admin") THEN Failed("analytics", 403)
            ELSE [kind |-> "analytics", pc |-> "ordersDaily", code |-> 0,
                  amount |-> amount,
                  ordersDaily |-> <<>>, revenueDaily |-> <<>>, revenueMonthly |-> <<>>,
                  orderStatusStats |-> {}, topProducts |-> <<>>,
                  totalOrders |-> 0, totalRevenue |-> 0]]
    /\ UNCHANGED <<products, orders, now>>
    /\ UNCHANGED elsewhere

(* One awaited read of the handler: it is at position pc, and goes on to
   position next with the fields of its slot changed as given. *)
AnalyticsAt(s, pc) == slots[s].kind = "analytics" /\ slots[s].pc = pc

AnalyticsOrdersDaily(s) ==
    /\ AnalyticsAt(s, "ordersDaily")
    /\ slots' = [slots EXCEPT ![s].pc = "revenueDaily",
                              ![s].ordersDaily = ordersDailyOf(orders)]
    /\ UNCHANGED <<products, orders, now, started>>
    /\ UNCHANGED elsewhere

AnalyticsRevenueDaily(s) ==
    /\ AnalyticsAt(s, "revenueDaily")
    /\ slots' = [slots EXCEPT ![s].pc = "revenueMonthly",
                              ![s].revenueDaily = revenueDailyOf(orders, slots[s].amount)]
    /\ UNCHANGED <<products, orders, now, started>>
    /\ UNCHANGED elsewhere

AnalyticsRevenueMonthly(s) ==
    /\ AnalyticsAt(s, "revenueMonthly")
    /\ slots' = [slots EXCEPT ![s].pc = "orderStatusStats",
                              ![s].revenueMonthly = revenueMonthlyOf(orders, slots[s].amount)]
    /\ UNCHANGED <<products, orders, now, started>>
    /\ UNCHANGED elsewhere

AnalyticsStatusStats(s) ==
    /\ AnalyticsAt(s, "orderStatusStats")
    /\ slots' = [slots EXCEPT ![s].pc = "topProducts",
                              ![s].orderStatusStats = orderStatusStatsOf(orders)]
    /\ UNCHANGED <<products, orders, now, started>>
    /\ UNCHANGED elsewhere

AnalyticsTopProducts(s) ==
    /\ AnalyticsAt(s, "topProducts")
    /\ \E l \in topProductsOf(orders) :
         slots' = [slots EXCEPT ![s].pc = "totalOrders", ![s].topProducts = l]
    /\ UNCHANGED <<products, orders, now, started>>
    /\ UNCHANGED elsewhere

(* await Order.countDocuments() *)
AnalyticsTotalOrders(s) ==
    /\ AnalyticsAt(s, "totalOrders")
    /\ slots' = [slots EXCEPT ![s].pc = "revenueAgg", ![s].totalOrders = Len(orders)]
    /\ UNCHANGED <<products, orders, now, started>>
    /\ UNCHANGED elsewhere

(* revenueAgg, totalRevenue and the response. *)
AnalyticsRespond(s) ==
    /\ AnalyticsAt(s, "revenueAgg")
    /\ slots' = [slots EXCEPT ![s].pc = "done", ![s].code = 200,
                              ![s].totalRevenue = totalRevenueOf(orders, slots[s].amount)]
    /\ UNCHANGED <<products, orders, now, started>>
    /\ UNCHANGED elsewhere

----------------------------------------------------------------------------
(* CSV export: GET /orders/export/csv                                      *)
(*                                                                         *)
(* A text is a sequence of characters.  Only the double quote, the comma   *)
(* and the line feed are told apart; a run of other characters is kept as  *)
(* one element.                                                            *)

Quote == "\""

Comma == ","

LineFeed == "\n"

(* The characters of the texts a client sends: "q" names a text with a double
   quote in it, "l" one with a comma and a line feed. *)
textOf(str) ==
    CASE str = "q" -> <<"a", Quote, "b">>
      [] str = "l" -> <<"a", Comma, LineFeed, "b">>
      [] OTHER -> <<str>>

(* String(n) of a number that is no less than 0 *)
RECURSIVE decimal(_)
decimal(n) ==
    IF n = 0 THEN <<"0">>
    ELSE IF n < 10 THEN <<Digits[n]>>
    ELSE decimal(n \div 10) \o decimal(n % 10)

(* String(undefined), the value of a path the document does not have *)
UndefinedText == <<"undefined">>

(* date.toISOString().split('T')[0] *)
dateText(t) == <<"day">> \o decimal(dayOf(t))

(* .populate('customer', 'name email') and .populate('items.product', 'name category'):
   the name and the email of a user, the name of a product. *)
customerName(u) == <<u>>

customerEmail(u) == <<u, "@">>

productName(p) == <<p>>

(* `${item.product?.name || 'Unknown'} (${item.tier}, Qty: ${item.quantity})`:
   the item is stored with packageType, and has no tier. *)
productText(item) ==
    (IF findProductById(item.product) = <<>> THEN <<"Unknown">> ELSE productName(item.product))
    \o <<" (">> \o UndefinedText \o <<Comma, " Qty: ">> \o decimal(item.quantity) \o <<")">>

(* .join('; ') *)
RECURSIVE joinWith(_, _)
joinWith(texts, sep) ==
    IF texts = <<>> THEN <<>>
    ELSE IF Len(texts) = 1 THEN texts[1]
    ELSE texts[1] \o sep \o joinWith(Tail(texts), sep)

(* `${fullName}, ${address}, ${city}, ${state} ${zipCode}`: the address is
   stored with street, and has no address; city, state and zipCode are kept
   as written in the request, which the model holds as one element each. *)
shippingAddressText(addr) ==
    textOf(addr.fullName) \o <<Comma, " ">> \o UndefinedText \o <<Comma, " ", "city">>
    \o <<Comma, " ", "state", " ", "zipCode">>

csvHeaders ==
    << <<"Order Number">>, <<"Customer Name">>, <<"Customer Email">>, <<"Status">>,
       <<"Total Amount">>, <<"Items Count">>, <<"Products">>, <<"Created Date">>,
       <<"Updated Date">>, <<"Shipping Address">>, <<"Phone">> >>

(* One element of csvRows, every field as String(field) makes it.  The order
   has no totalAmount.  updatedAt is the instant of the last save. *)
csvRow(order, updatedAt) ==
    << order.orderNumber,
       customerName(order.customer),
       customerEmail(order.customer),
       <<order.status>>,
       UndefinedText,
       decimal(Len(order.items)),
       joinWith([k \in DOMAIN order.items |-> productText(order.items[k])], <<"; ">>),
       dateText(order.createdAt),
       dateText(updatedAt),
       shippingAddressText(order.shippingAddress),
       textOf(order.shippingAddress.phone) >>

(* String(field).replace(/"/g, '""') *)
escapeNothing(text) == text

RECURSIVE escapeQuotes(_)
escapeQuotes(text) ==
    IF text = <<>> THEN <<>>
    ELSE (IF text[1] = Quote THEN <<Quote, Quote>> ELSE <<text[1]>>) \o escapeQuotes(Tail(text))

(* `"${...}"` *)
quoted(text) == <<Quote>> \o escapeQuotes(text) \o <<Quote>>

(* .map(row => row.map(...).join(',')).join('\n') *)
csvContentOf(rows) ==
    joinWith([r \in DOMAIN rows |->
                joinWith([f \in DOMAIN rows[r] |-> quoted(rows[r][f])], <<Comma>>)],
             <<LineFeed>>)

ExportBegin(s) ==
    /\ Arrives(s)
    /\ started' = started + 1
    /\ \E caller \in Users :
         slots' = [slots EXCEPT ![s] =
            IF ~authorize(caller, "admin") THEN Failed("export", 403)
            ELSE [kind |-> "export", pc |-> "finding", code |-> 0, rows |-> <<>>,
                  csv |-> <<>>]]
    /\ UNCHANGED <<products, orders, now>>
    /\ UNCHANGED elsewhere

(* Order.find({}).sort({ createdAt: -1 }), the rows and the response. *)
ExportSend(s) ==
    /\ slots[s].kind = "export" /\ slots[s].pc = "finding"
    /\ \E l \in sortedLists(orders, 1..Len(orders)) :
       \E updated \in [1..Len(orders) -> 1..now] :
         /\ \A i \in 1..Len(orders) : updated[i] >= orders[i].createdAt
         /\ LET rows == [k \in DOMAIN l |-> csvRow(orders[l[k]], updated[l[k]])]
            IN  slots' = [slots EXCEPT ![s] =
                   [kind |-> "export", pc |-> "done", code |-> 200, rows |-> rows,
                    csv |-> csvContentOf(<<csvHeaders>> \o rows)]]
    /\ UNCHANGED <<products, orders, now, started>>
    /\ UNCHANGED elsewhere

----------------------------------------------------------------------------
(* connectDB, and the middleware that awaits it before every route         *)
(*                                                                         *)
(* isConnected is the flag of the module; listeners counts how often the   *)
(* pair of handlers for "error" and "disconnected" has been registered on  *)
(* mongoose.connection.  What the route does once next() is called is not  *)
(* part of a request here.  The other specifications leave the middleware  *)
(* out: their handlers start where it has called next().                   *)

(* app.use(async (req, res, next) => { await connectDB(); next() }): with the
   flag set connectDB returns the connection; else it calls mongoose.connect
   and waits. *)
ConnectArrives(s) ==
    /\ Free(s)
    /\ \A t \in Slots : t < s => ~Free(t)
    /\ started < MaxRequests
    /\ started' = started + 1
    /\ slots' = [slots EXCEPT ![s] =
          IF isConnected THEN [kind |-> "request", pc |-> "done", code |-> 200]
          ELSE [kind |-> "request", pc |-> "connecting", code |-> 0]]
    /\ UNCHANGED <<products, orders, now, isActive, isConnected, listeners, podcasts, files>>

(* mongoose.connect resolved: the flag is set, the two handlers are
   registered, and the middleware calls next(). *)
ConnectResolves(s) ==
    /\ slots[s].kind = "request" /\ slots[s].pc = "connecting"
    /\ isConnected' = TRUE
    /\ listeners' = listeners + 1
    /\ slots' = [slots EXCEPT ![s] = [kind |-> "request", pc |-> "done", code |-> 200]]
    /\ UNCHANGED <<products, orders, now, started, isActive, podcasts, files>>

(* mongoose.connect rejected: connectDB throws again, the middleware calls
   next(err), and the error handler of the app answers 500. *)
ConnectRejects(s) ==
    /\ slots[s].kind = "request" /\ slots[s].pc = "connecting"
    /\ slots' = [slots EXCEPT ![s] = Failed("request", 500)]
    /\ UNCHANGED <<products, orders, now, started, isActive, isConnected, listeners,
                   podcasts, files>>

(* mongoose.connection emits "error": every registered handler clears the flag. *)
ConnectionError ==
    /\ listeners > 0
    /\ isConnected' = FALSE
    /\ UNCHANGED <<products, orders, now, slots, started, isActive, listeners, podcasts, files>>

(* mongoose.connection emits "disconnected" *)
ConnectionDisconnected ==
    /\ listeners > 0
    /\ isConnected' = FALSE
    /\ UNCHANGED <<products, orders, now, slots, started, isActive, listeners, podcasts, files>>

----------------------------------------------------------------------------
(* Podcasts: POST, PUT and DELETE /podcasts, and the files of their videos *)
(*                                                                         *)
(* podcasts holds <<doc>> for a stored podcast and <<>> for one that was   *)
(* deleted; files holds the names of the files in uploads/podcasts.  The   *)
(* title, the description and isActive of a podcast play no part in what   *)
(* happens to the files and are left out of the documents.                 *)

MaxPodcasts == 1

(* `/uploads/podcasts/${filename}`, and any other text: an address elsewhere,
   or '' for a thumbnail that was never set. *)
localUrl(name) == [local |-> TRUE, file |-> name]

otherUrl == [local |-> FALSE, file |-> <<>>]

(* videoUrl.startsWith('/uploads') *)
startsWithUploads(url) == url.local

(* The names multer gives the files of request n: unique to the request. *)
videoName(n) == <<"video", n>>

thumbName(n) == <<"thumb", n>>

(* req.body and req.files: title "" , videoType "" and videoUrl "" stand for
   an absent field; videoFile and thumbnail tell whether the file was sent. *)
mkPodcastBody(title, videoType, videoUrl, videoFile, thumbnail) ==
    [title |-> title, videoType |-> videoType, videoUrl |-> videoUrl,
     videoFile |-> videoFile, thumbnail |-> thumbnail]

PodcastBodies ==
    { mkPodcastBody("t", "upload", "", TRUE, TRUE),
      mkPodcastBody("t", "url", "http", FALSE, FALSE),
      mkPodcastBody("", "upload", "", TRUE, FALSE) }

PodcastUpdates ==
    { mkPodcastBody("", "upload", "", TRUE, FALSE),
      mkPodcastBody("", "url", "http", FALSE, FALSE),
      mkPodcastBody("", "", "", TRUE, TRUE),
      mkPodcastBody("", "bogus", "", FALSE, FALSE) }

PodcastRefs == 1..MaxPodcasts

findPodcastById(id) == IF id \in 1..Len(podcasts) THEN podcasts[id] ELSE <<>>

(* multer.diskStorage: the files of the request are written before the
   handler runs. *)
writeFiles(fs, body, n) ==
    fs \cup (IF body.videoFile THEN {videoName(n)} ELSE {})
       \cup (IF body.thumbnail THEN {thumbName(n)} ELSE {})

(* deleteFileIfExists(filePath): a path that is no file of the directory
   deletes nothing. *)
deleteFileIfExists(fs, url) == IF url.local THEN fs \ {url.file} ELSE fs

(* The checks of POST /podcasts: the code it ends with, or 0. *)
podcastValidation(body) ==
    IF body.title = "" \/ body.videoType = "" THEN 400
    ELSE IF body.videoType \notin {"upload", "url"} THEN 400
    ELSE IF body.videoType = "upload" /\ ~body.videoFile THEN 400
    ELSE IF body.videoType = "url" /\ body.videoUrl = "" THEN 400
    ELSE 0

newPodcast(body, n) ==
    [videoType |-> body.videoType,
     videoUrl |-> IF body.videoType = "upload" THEN localUrl(videoName(n)) ELSE otherUrl,
     thumbnailUrl |-> IF body.thumbnail THEN localUrl(thumbName(n)) ELSE otherUrl]

PodcastsClaimed ==
    Len(podcasts)
    + Cardinality({s \in Slots : slots[s].kind = "podcast" /\ slots[s].pc # "done"})

PodcastCreateBegin(s) ==
    /\ Arrives(s)
    /\ PodcastsClaimed < MaxPodcasts
    /\ started' = started + 1
    /\ \E caller \in {"admin", "u1"}, body \in PodcastBodies :
         IF ~authorize(caller, "admin")
         THEN /\ slots' = [slots EXCEPT ![s] = Failed("podcast", 403)]
              /\ UNCHANGED files
         ELSE /\ files' = writeFiles(files, body, started')
              /\ slots' = [slots EXCEPT ![s] =
                    IF podcastValidation(body) # 0
                    THEN Failed("podcast", podcastValidation(body))
                    ELSE [kind |-> "podcast", pc |-> "creating", code |-> 0,
                          doc |-> newPodcast(body, started')]]
    /\ UNCHANGED <<products, orders, now, isActive, isConnected, listeners, podcasts>>

(* await Podcast.create(...) *)
PodcastCreateSave(s) ==
    /\ slots[s].kind = "podcast" /\ slots[s].pc = "creating"
    /\ podcasts' = Append(podcasts, <<slots[s].doc>>)
    /\ slots' = Respond(s, 201)
    /\ UNCHANGED <<products, orders, now, started, isActive, isConnected, listeners, files>>

(* The video part of PUT /podcasts/:id: the document and the files after it.
   podcast.videoType is assigned before it is tested. *)
updateVideo(doc, fs, body, n) ==
    LET typed == [doc EXCEPT !.videoType = body.videoType] IN
    IF body.videoType # ""
    THEN IF body.videoType = "upload"
         THEN IF body.videoFile
              THEN [doc |-> [typed EXCEPT !.videoUrl = localUrl(videoName(n))],
                    files |-> IF typed.videoType = "upload" /\ startsWithUploads(typed.videoUrl)
                              THEN deleteFileIfExists(fs, typed.videoUrl) ELSE fs]
              ELSE [doc |-> typed, files |-> fs]
         ELSE IF body.videoUrl # ""
              THEN [doc |-> [typed EXCEPT !.videoUrl = otherUrl],
                    files |-> IF typed.videoType = "upload" /\ startsWithUploads(typed.videoUrl)
                              THEN deleteFileIfExists(fs, typed.videoUrl) ELSE fs]
              ELSE [doc |-> typed, files |-> fs]
    ELSE IF doc.videoType = "upload" /\ body.videoFile
         THEN [doc |-> [doc EXCEPT !.videoUrl = localUrl(videoName(n))],
               files |-> deleteFileIfExists(fs, doc.videoUrl)]
         ELSE [doc |-> doc, files |-> fs]

(* The thumbnail part. *)
updateThumbnail(doc, fs, body, n) ==
    IF body.thumbnail
    THEN [doc |-> [doc EXCEPT !.thumbnailUrl = localUrl(thumbName(n))],
          files |-> IF startsWithUploads(doc.thumbnailUrl)
                    THEN deleteFileIfExists(fs, doc.thumbnailUrl) ELSE fs]
    ELSE [doc |-> doc, files |-> fs]

PodcastUpdateBegin(s) ==
    /\ Arrives(s)
    /\ started' = started + 1
    /\ \E caller \in {"admin", "u1"}, id \in PodcastRefs, body \in PodcastUpdates :
         IF ~authorize(caller, "admin")
         THEN /\ slots' = [slots EXCEPT ![s] = Failed("podcastUpdate", 403)]
              /\ UNCHANGED files
         ELSE /\ files' = writeFiles(files, body, started')
              /\ slots' = [slots EXCEPT ![s] =
                    [kind |-> "podcastUpdate", pc |-> "loaded", code |-> 0, id |-> id,
                     body |-> body, n |-> started', doc |-> findPodcastById(id)]]
    /\ UNCHANGED <<products, orders, now, isActive, isConnected, listeners, podcasts>>

PodcastUpdateContinue(s) ==
    LET r == slots[s]
        video == updateVideo(r.doc[1], files, r.body, r.n)
        thumb == updateThumbnail(video.doc, video.files, r.body, r.n)
    IN
    /\ r.kind = "podcastUpdate" /\ r.pc = "loaded"
    /\ IF r.doc = <<>>
       THEN slots' = Respond(s, 404) /\ UNCHANGED files
       ELSE IF r.body.videoType \notin {"", "upload", "url"}
       THEN slots' = Respond(s, 400) /\ UNCHANGED files
       ELSE /\ files' = thumb.files
            /\ slots' = [slots EXCEPT ![s].pc = "saving", ![s].doc = <<thumb.doc>>]
    /\ UNCHANGED <<products, orders, now, started, isActive, isConnected, listeners, podcasts>>

(* await podcast.save(): the document is written where it is still stored;
   where it was deleted meanwhile, save() finds nothing to write and throws. *)
PodcastUpdateSave(s) ==
    LET r == slots[s] IN
    /\ r.kind = "podcastUpdate" /\ r.pc = "saving"
    /\ IF podcasts[r.id] = <<>>
       THEN slots' = Respond(s, 500) /\ UNCHANGED podcasts
       ELSE /\ podcasts' = [podcasts EXCEPT ![r.id] = r.doc]
            /\ slots' = Respond(s, 200)
    /\ UNCHANGED <<products, orders, now, started, isActive, isConnected, listeners, files>>

PodcastDeleteBegin(s) ==
    /\ Arrives(s)
    /\ started' = started + 1
    /\ \E caller \in {"admin", "u1"}, id \in PodcastRefs :
         slots' = [slots EXCEPT ![s] =
            IF ~authorize(caller, "admin") THEN Failed("podcastDelete", 403)
            ELSE [kind |-> "podcastDelete", pc |-> "loaded", code |-> 0, id |-> id,
                  doc |-> findPodcastById(id)]]
    /\ UNCHANGED <<products, orders, now, isActive, isConnected, listeners, podcasts, files>>

(* The files of the loaded document are deleted, then deleteOne is awaited. *)
deleteFilesOf(doc, fs) ==
    LET video == IF doc.videoType = "upload" /\ startsWithUploads(doc.videoUrl)
                 THEN deleteFileIfExists(fs, doc.videoUrl) ELSE fs
    IN  IF startsWithUploads(doc.thumbnailUrl)
        THEN deleteFileIfExists(video, doc.thumbnailUrl) ELSE video

PodcastDeleteContinue(s) ==
    LET r == slots[s] IN
    /\ r.kind = "podcastDelete" /\ r.pc = "loaded"
    /\ IF r.doc = <<>>
       THEN slots' = Respond(s, 404) /\ UNCHANGED files
       ELSE /\ files' = deleteFilesOf(r.doc[1], files)
            /\ slots' = [slots EXCEPT ![s].pc = "deleting"]
    /\ UNCHANGED <<products, orders, now, started, isActive, isConnected, listeners, podcasts>>

(* await podcast.deleteOne() *)
PodcastDeleteSave(s) ==
    LET r == slots[s] IN
    /\ r.kind = "podcastDelete" /\ r.pc = "deleting"
    /\ podcasts' = [podcasts EXCEPT ![r.id] = <<>>]
    /\ slots' = Respond(s, 200)
    /\ UNCHANGED <<products, orders, now, started, isActive, isConnected, listeners, files>>

----------------------------------------------------------------------------
(* Time: new Date() reads a clock that other steps see advance.            *)

Tick ==
    /\ now < MaxClock
    /\ now' = now + 1
    /\ UNCHANGED <<products, orders, slots, started>>
    /\ UNCHANGED elsewhere

----------------------------------------------------------------------------

Init ==
    /\ products = InitialProducts
    /\ isActive = [p \in ProductIds |-> TRUE]
    /\ orders = <<>>
    /\ podcasts = <<>>
    /\ files = {}
    /\ isConnected = FALSE
    /\ listeners = 0
    /\ now = 1
    /\ slots = [s \in Slots |-> Idle]
    /\ started = 0

(* The order routes, with requests interleaving at their awaits. *)
Next ==
    \/ Tick
    \/ \E s \in Slots :
        \/ CreateBegin(s, CreateCallers, LifecycleBodies, MaxOrders) \/ CreateItem(s)
        \/ StatusBegin(s) \/ StatusContinue(s) \/ StatusSave(s)
        \/ CancelBegin(s) \/ CancelContinue(s) \/ CancelSave(s)
        \/ MessageBegin(s) \/ MessageContinue(s) \/ MessageSave(s)

Spec == Init /\ [][Next]_vars

(* Order intake against a catalog whose prices an admin edits meanwhile. *)
CatalogNext ==
    \E s \in Slots :
        \/ CreateBegin(s, CreateCallers, CreateBodies, MaxOrders) \/ CreateItem(s)
        \/ ProductBegin(s) \/ ProductSave(s)

CatalogSpec == Init /\ [][CatalogNext]_vars

(* The customers who place the orders that are read, and what they send: an
   order of one item, or no item at all. *)
Customers == {"u1", "u2"}

ReadBodies ==
    { mkBody(<<mkItem("p1", "base", "", 2)>>, FullAddress), mkBody(<<>>, FullAddress) }

(* Orders of two customers being placed, cancelled, fetched and listed. *)
ReadNext ==
    \/ Tick
    \/ \E s \in Slots :
        \/ CreateBegin(s, Customers, ReadBodies, MaxListed) \/ CreateItem(s)
        \/ CancelBegin(s) \/ CancelContinue(s) \/ CancelSave(s)
        \/ GetBegin(s) \/ GetContinue(s)
        \/ ListBegin(s) \/ ListCount(s)

ReadSpec == Init /\ [][ReadNext]_vars

(* What the orders of the dashboard are placed with: one order of six
   products, two of which sell the same, and one more order of the sixth. *)
AnalyticsBodies ==
    { mkBody(<<mkItem("p1", "base", "", 2), mkItem("p2", "", "", 0),
               mkItem("p3", "", "", 3), mkItem("p4", "", "", 4),
               mkItem("p5", "", "", 5), mkItem("p6", "", "", 0)>>, FullAddress),
      mkBody(<<mkItem("p6", "", "", 2)>>, FullAddress) }

(* The dashboard read while orders are placed and cancelled. *)
AnalyticsNext ==
    \E s \in Slots :
        \/ CreateBegin(s, CreateCallers, AnalyticsBodies, MaxListed) \/ CreateItem(s)
        \/ CancelBegin(s) \/ CancelContinue(s) \/ CancelSave(s)
        \/ AnalyticsBegin(s) \/ AnalyticsOrdersDaily(s) \/ AnalyticsRevenueDaily(s)
        \/ AnalyticsRevenueMonthly(s) \/ AnalyticsStatusStats(s)
        \/ AnalyticsTopProducts(s) \/ AnalyticsTotalOrders(s) \/ AnalyticsRespond(s)

AnalyticsSpec == Init /\ [][AnalyticsNext]_vars

(* What the exported orders are placed with: one item, or two, and a name
   with a double quote, or with a comma and a line feed. *)
ExportBodies ==
    { mkBody(<<mkItem("p1", "premium", "", 2)>>, <<mkAddress("q", "e", "t")>>),
      mkBody(<<mkItem("p2", "", "", 0), mkItem("p1", "", "", 12)>>,
             <<mkAddress("l", "e", "q")>>) }

(* Orders being placed and cancelled while the admin exports them. *)
ExportNext ==
    \E s \in Slots :
        \/ CreateBegin(s, CreateCallers, ExportBodies, MaxListed) \/ CreateItem(s)
        \/ CancelBegin(s) \/ CancelContinue(s) \/ CancelSave(s)
        \/ ExportBegin(s) \/ ExportSend(s)

ExportSpec == Init /\ [][ExportNext]_vars

(* Requests passing the middleware while the connection is made and lost. *)
ConnectNext ==
    \/ ConnectionError
    \/ ConnectionDisconnected
    \/ \E s \in Slots : ConnectArrives(s) \/ ConnectResolves(s) \/ ConnectRejects(s)

ConnectSpec == Init /\ [][ConnectNext]_vars

(* Podcasts being created, updated and deleted by requests that overlap. *)
PodcastNext ==
    \E s \in Slots :
        \/ PodcastCreateBegin(s) \/ PodcastCreateSave(s)
        \/ PodcastUpdateBegin(s) \/ PodcastUpdateContinue(s) \/ PodcastUpdateSave(s)
        \/ PodcastDeleteBegin(s) \/ PodcastDeleteContinue(s) \/ PodcastDeleteSave(s)

PodcastSpec == Init /\ [][PodcastNext]_vars

----------------------------------------------------------------------------
(* Properties                                                              *)

RECURSIVE SumItems(_)
SumItems(items) ==
    IF items = <<>> THEN 0
    ELSE items[1].price * items[1].quantity + SumItems(Tail(items))

OrderIds == 1..Len(orders)

(* The steps of one request, told from the slot before and after. *)
SavesAs(s, kind) ==
    slots[s].kind = kind /\ slots[s].pc = "saving" /\ slots'[s].pc = "done"

Succeeded(s, kind) ==
    slots[s].kind = kind /\ slots[s].pc = "done" /\ slots[s].code \in {200, 201}

(* C1: every persisted order has pricing.subtotal equal to the sum over its
   items of price * quantity, pricing.tax equal to 10% of the subtotal, and
   pricing.total equal to subtotal + tax (pricing is held in tenths). *)
C1_PricingOfStoredOrders ==
    \A i \in OrderIds :
        LET o == orders[i] IN
        /\ o.pricing.subtotal = TaxDen * SumItems(o.items)
        /\ TaxDen * o.pricing.tax = TaxNum * o.pricing.subtotal
        /\ o.pricing.total = o.pricing.subtotal + o.pricing.tax

(* An order of two items: tier price 500 with quantity 2 (1000), and tier
   price 3 with the default quantity 1; subtotal 1003, tax 100.3, total 1103.3. *)
C1_Witness ==
    \E i \in OrderIds :
        /\ Len(orders[i].items) = 2
        /\ orders[i].items[1].price = 500 /\ orders[i].items[1].quantity = 2
        /\ orders[i].items[2].price = 3 /\ orders[i].items[2].quantity = 1
        /\ orders[i].pricing = [subtotal |-> 10030, tax |-> 1003, total |-> 11033]

(* C2: the save of a setStatus call makes the communication log exactly one
   entry longer, and it sets actualDeliveryDate if and only if the new status
   is completed and the order the call read had none; otherwise the stored
   date is left as it is. *)
C2_SetStatusEffect ==
    [][\A s \in Slots :
        SavesAs(s, "status") =>
            LET r == slots[s]
                before == orders[r.doc[1].id]
                after == orders'[r.doc[1].id]
            IN
            /\ Len(after.communication) = Len(before.communication) + 1
            /\ IF r.status = "completed" /\ r.doc[1].actualDeliveryDate = Unset
               THEN after.actualDeliveryDate # Unset
                    /\ after.actualDeliveryDate = r.delta.push.createdAt
               ELSE after.actualDeliveryDate = before.actualDeliveryDate]_vars

(* A second setStatus(completed), on an order already delivered at an earlier
   time, has succeeded and the date is the first one. *)
C2_Witness ==
    \E s \in Slots :
        /\ Succeeded(s, "status")
        /\ slots[s].status = "completed"
        /\ slots[s].doc[1].actualDeliveryDate # Unset
        /\ slots[s].delta.push.createdAt > slots[s].doc[1].actualDeliveryDate
        /\ orders[slots[s].doc[1].id].actualDeliveryDate = slots[s].doc[1].actualDeliveryDate
        /\ Len(orders[slots[s].doc[1].id].communication) = 2

(* C3: a cancel that finds the order completed or cancelled ends with a
   failure, 400 for a caller allowed to cancel it, and writes nothing. *)
C3_CancelOfTerminalOrder ==
    [][\A s \in Slots :
        (/\ slots[s].kind = "cancel" /\ slots[s].pc = "loaded"
         /\ slots[s].doc # <<>>
         /\ slots[s].doc[1].status \in Terminal
         /\ slots'[s] # slots[s])
        => /\ orders' = orders
           /\ slots'[s] = Failed("cancel",
                  IF canAccess(slots[s].caller, slots[s].doc[1]) THEN 400 ELSE 403)]_vars

(* A cancel was refused with 400 and the order is still in its terminal status. *)
C3_Witness ==
    /\ \E s \in Slots : slots[s] = Failed("cancel", 400)
    /\ \E i \in OrderIds : orders[i].status = "completed" /\ orders[i].actualDeliveryDate # Unset

(* C4: once an order's status is completed or cancelled, no step of the order
   routes changes it. *)
C4_TerminalStatusStays ==
    [][\A i \in OrderIds :
        orders[i].status \in Terminal => orders'[i].status = orders[i].status]_vars

(* An item resolves against what the store returned for its product when the
   product exists and its price map has a truthy price under the item's tier. *)
Resolves(item, found) ==
    /\ found # <<>>
    /\ LET t == IF item.tier # "" THEN item.tier
                ELSE IF item.packageType # "" THEN item.packageType ELSE "base"
       IN t \in DOMAIN found[1] /\ found[1][t] # 0

(* C5: a createOrder request that meets an item which does not resolve, at
   whatever position, persists nothing in that turn and does not succeed; a
   request succeeds, and an order is persisted, only in the turn of the last
   item and when that item and all the items before it resolved. *)
C5_UnresolvedItemAbortsOrder ==
    [][\A s \in Slots :
        (slots[s].kind = "create" /\ slots[s].pc = "item" /\ slots'[s] # slots[s]) =>
            LET r == slots[s] IN
            /\ ~Resolves(r.items[r.idx], r.product)
                 => orders' = orders /\ slots'[s].code # 201
            /\ (orders' # orders \/ slots'[s].code = 201)
                 => /\ r.idx = Len(r.items)
                    /\ Resolves(r.items[r.idx], r.product)
                    /\ \A k \in DOMAIN r.orderItems : r.orderItems[k].price > 0]_vars

(* The second item of a request does not resolve, after the first one did. *)
C5_Witness ==
    \E s \in Slots :
        /\ slots[s].kind = "create" /\ slots[s].pc = "item"
        /\ slots[s].idx = 2 /\ Len(slots[s].orderItems) = 1
        /\ ~Resolves(slots[s].items[2], slots[s].product)

IsPrefix(a, b) == Len(a) <= Len(b) /\ \A k \in 1..Len(a) : b[k] = a[k]

NonDecreasing(log) ==
    \A k \in 1..Len(log) : k > 1 => log[k - 1].createdAt <= log[k].createdAt

(* C6: an order's communication log only grows, no entry of it is removed or
   modified, and the createdAt values of its entries never decrease along the
   log. *)
C6_LogGrowsInTimeOrder ==
    [][\A i \in OrderIds :
        /\ IsPrefix(orders[i].communication, orders'[i].communication)
        /\ NonDecreasing(orders'[i].communication)]_vars

(* C7: once actualDeliveryDate holds a value, no step changes it. *)
C7_DeliveryDateSetOnce ==
    [][\A i \in OrderIds :
        orders[i].actualDeliveryDate # Unset
            => orders'[i].actualDeliveryDate = orders[i].actualDeliveryDate]_vars

(* C8: when two setStatus calls on the same order have both succeeded, the
   stored status is the one either of them asked for and the log holds an
   entry of each at two different places. *)
C8_BothStatusCallsLogged ==
    \A s, t \in Slots :
        (/\ s # t
         /\ Succeeded(s, "status") /\ Succeeded(t, "status")
         /\ slots[s].doc[1].id = slots[t].doc[1].id)
        => LET o == orders[slots[s].doc[1].id] IN
           /\ o.status \in {slots[s].status, slots[t].status}
           /\ \E j, k \in 1..Len(o.communication) :
                /\ j # k
                /\ o.communication[j] = slots[s].delta.push
                /\ o.communication[k] = slots[t].delta.push

(* Two calls that read the same state of the order, asking for different
   statuses, have both succeeded. *)
C8_Witness ==
    /\ Succeeded(1, "status") /\ Succeeded(2, "status")
    /\ slots[1].doc = slots[2].doc
    /\ slots[1].status # slots[2].status
    /\ Len(orders[slots[1].doc[1].id].communication)
         = Len(slots[1].doc[1].communication) + 2

(* C9: the save of a setStatus call leaves the stored order with the call's
   status, the call's communication entry as its last entry and, when the
   status is completed, a delivery date. *)
C9_StatusSaveIsWhole ==
    [][\A s \in Slots :
        SavesAs(s, "status") =>
            LET r == slots[s]
                after == orders'[r.doc[1].id]
            IN
            /\ after.status = r.status
            /\ after.communication[Len(after.communication)] = r.delta.push
            /\ (r.status = "completed" => after.actualDeliveryDate # Unset)]_vars

(* C10: the price of a stored order item is the tier price createOrder read
   from the product, and a product update changes no stored order. *)
C10_PriceCopiedAtOrderTime ==
    [][/\ products' # products => orders' = orders
       /\ \A s \in Slots :
            (/\ slots[s].kind = "create" /\ slots[s].pc = "item"
             /\ slots'[s] # slots[s] /\ orders' # orders) =>
                LET r == slots[s]
                    o == orders'[Len(orders')]
                IN
                /\ Len(o.items) = Len(r.items)
                /\ SubSeq(o.items, 1, Len(r.orderItems)) = r.orderItems
                /\ o.items[r.idx].price = r.product[1][o.items[r.idx].packageType]]_vars

(* An order keeps the price 500 of p1's base tier after the catalog price has
   been changed to 9. *)
C10_Witness ==
    /\ products["p1"].base = 9
    /\ \E i \in OrderIds : \E k \in 1..Len(orders[i].items) :
        /\ orders[i].items[k].product = "p1"
        /\ orders[i].items[k].packageType = "base"
        /\ orders[i].items[k].price = 500
        /\ orders[i].pricing.subtotal = TaxDen * SumItems(orders[i].items)

(* The part of an order that createOrder writes and no later route touches. *)
Placed(o) ==
    [items |-> o.items, pricing |-> o.pricing, customer |-> o.customer,
     shippingAddress |-> o.shippingAddress]

(* C11: no step of setStatus, cancel or addMessage changes the items, the
   pricing, the customer or the shippingAddress of a stored order, so after
   any sequence of them these equal what createOrder wrote. *)
C11_PlacedPartIsFrozen ==
    [][\A i \in OrderIds : Placed(orders'[i]) = Placed(orders[i])]_vars

(* An order that a status change or a message, and then a cancel, were saved
   on. *)
C11_Witness ==
    \E i \in OrderIds :
        /\ Len(orders[i].communication) = 2
        /\ orders[i].status = "cancelled"
        /\ orders[i].pricing = computePricing(lineAmount(500, 2))

(* Slot s is the one that takes this step: its record changes, or a request
   arrives on it and ends at once with the response the slot already held. *)
Acts(s) == slots'[s] # slots[s] \/ (Arrives(s) /\ started' # started)

(* C12: an addMessage request that succeeds appends exactly one entry, with
   the content of the request and its type (message when the request has
   none), sent by the caller, and leaves status and actualDeliveryDate as they
   are; one that fails (400, 403, 404) leaves the orders as they are. *)
C12_AddMessageEffect ==
    [][\A s \in Slots :
        LET r == slots[s] IN
        /\ (r.kind = "message" /\ r.pc = "loaded" /\ slots'[s].pc = "saving")
           => /\ canAccess(r.caller, r.doc[1])
              /\ slots'[s].delta.push.content = <<r.message>>
              /\ slots'[s].delta.push.type = (IF r.type = "" THEN "message" ELSE r.type)
              /\ slots'[s].delta.push.sender = r.caller
        /\ SavesAs(s, "message")
           => LET i == r.doc[1].id IN
              /\ slots'[s].code = 201
              /\ orders'[i].communication = Append(orders[i].communication, r.delta.push)
              /\ orders'[i].status = orders[i].status
              /\ orders'[i].actualDeliveryDate = orders[i].actualDeliveryDate
        /\ (Acts(s) /\ slots'[s].kind = "message" /\ slots'[s].code >= 400)
           => orders' = orders
    ]_vars

(* The owner's message without a type is in the log as a message, while the
   order is still pending. *)
C12_Witness ==
    \E s \in Slots, i \in OrderIds :
        /\ Succeeded(s, "message")
        /\ slots[s].caller = "u1"
        /\ orders[i].status = "pending"
        /\ orders[i].communication = <<mkEntry("u1", <<"hi">>, "message", slots[s].delta.push.createdAt)>>

(* C13: cancel goes through only for the customer of the order or an admin;
   its save sets the status to cancelled and appends exactly one entry,
   'Order cancelled by admin' for an admin and 'Order cancelled by customer'
   for the customer; for any other caller the request ends with 403 and the
   orders are as before. *)
C13_CancelEffect ==
    [][\A s \in Slots :
        LET r == slots[s] IN
        /\ (r.kind = "cancel" /\ r.pc = "loaded" /\ Acts(s) /\ r.doc # <<>>
              /\ r.caller # "admin" /\ r.doc[1].customer # r.caller)
           => slots'[s] = Failed("cancel", 403) /\ orders' = orders
        /\ SavesAs(s, "cancel")
           => LET i == r.doc[1].id IN
              /\ r.caller = "admin" \/ orders[i].customer = r.caller
              /\ slots'[s].code = 200
              /\ orders'[i].status = "cancelled"
              /\ Len(orders'[i].communication) = Len(orders[i].communication) + 1
              /\ IsPrefix(orders[i].communication, orders'[i].communication)
              /\ LET e == orders'[i].communication[Len(orders'[i].communication)] IN
                 /\ e.sender = r.caller
                 /\ e.content = <<"cancelled by",
                                  IF r.caller = "admin" THEN "admin" ELSE "customer">>
    ]_vars

(* The customer has cancelled the order, and a caller who does not own it has
   been refused. *)
C13_Witness ==
    \E s, t \in Slots, i \in OrderIds :
        /\ Succeeded(s, "cancel") /\ slots[s].caller = "u1"
        /\ slots[t] = Failed("cancel", 403)
        /\ orders[i].status = "cancelled"
        /\ orders[i].communication[Len(orders[i].communication)].content
              = <<"cancelled by", "customer">>

(* The store as it would be without the orders of other customers. *)
OwnOrders(caller) == SelectSeq(orders, LAMBDA o : o.customer = caller)

(* The pages find() may return for a query of a caller on a store. *)
PagesOn(store, caller, q) ==
    { [k \in DOMAIN pageOf(l, q.page, q.limit) |-> store[pageOf(l, q.page, q.limit)[k]]] :
        l \in sortedLists(store, matching(store, scopedTo(caller), q)) }

(* What a caller may not see: an order of another customer, unless the caller
   is an admin. *)
Foreign(caller, o) == role(caller) # "admin" /\ o.customer # caller

NoForeignOrderInAnswer ==
    \A s \in Slots :
        LET r == slots[s] IN
        /\ (r.kind = "get" /\ r.pc = "done")
           => \A k \in DOMAIN r.order : ~Foreign(r.caller, r.order[k])
        /\ (r.kind = "list" /\ r.pc = "counting")
           => \A k \in DOMAIN r.found : ~Foreign(r.caller, r.found[k])
        /\ (r.kind = "list" /\ r.pc = "done")
           => \A k \in DOMAIN r.orders : ~Foreign(r.caller, r.orders[k])

ListIgnoresForeignOrders ==
    \A s \in Slots :
        LET r == slots[s]
            r2 == slots'[s]
        IN
        /\ (r.kind = "get" /\ r.pc = "loaded" /\ r2.pc = "done"
              /\ r.doc # <<>> /\ Foreign(r.caller, r.doc[1]))
           => r2.code = 403 /\ r2.order = <<>>
        /\ (r2.kind = "list" /\ r2.pc = "counting" /\ r2 # r /\ role(r2.caller) # "admin")
           => r2.found \in PagesOn(OwnOrders(r2.caller), r2.caller, r2.query)
        /\ (r.kind = "list" /\ r.pc = "counting" /\ r2.pc = "done"
              /\ role(r.caller) # "admin")
           => /\ r2.orders = r.found
              /\ r2.total = Cardinality(matching(OwnOrders(r.caller), scopedTo(r.caller),
                                                 r.query))

(* C14: the answer of GET /orders/:id to a caller who is neither admin nor the
   customer of the order is 403 and carries no order; the list GET /orders
   gives a caller who is no admin holds only that caller's orders, and both the
   page and the total are what the same query gives on a store without the
   other customers' orders, whatever the status, date and search filters. *)
C14_NoOrderOfAnotherCustomer ==
    []NoForeignOrderInAnswer /\ [][ListIgnoresForeignOrders]_vars

(* Two customers have an order each, and the list of one of them holds that
   customer's order alone. *)
C14_Witness ==
    \E s \in Slots :
        /\ Len(orders) = 2 /\ orders[1].customer # orders[2].customer
        /\ slots[s].kind = "list" /\ slots[s].pc = "done"
        /\ slots[s].caller = "u2"
        /\ Len(slots[s].orders) = 1 /\ slots[s].orders[1].customer = "u2"
        /\ slots[s].total = 1

(* C15: a createOrder request that fails validation (no items, or a
   shippingAddress without fullName, email or phone, a request without any
   shippingAddress included) is answered with 400, and no order is stored. *)
C15_ValidationAnswers400 ==
    [][\A s \in Slots :
        (Acts(s) /\ Free(s) /\ slots'[s].kind = "create" /\ slots'[s].pc = "done")
        => slots'[s].code = 400 /\ orders' = orders]_vars

(* The seven values of the claim. *)
SevenStatuses == {"pending", "confirmed", "in-progress", "review", "revision",
                  "completed", "cancelled"}

StoredStatusIsOfTheSeven == \A i \in OrderIds : orders[i].status \in SevenStatuses

SetStatusGate ==
    \A s \in Slots :
        LET r == slots[s]
            r2 == slots'[s]
        IN
        \* only an admin's request with one of the seven values reaches the lookup
        /\ (r2.kind = "status" /\ r2.pc = "loaded" /\ r2 # r)
           => role(r2.caller) = "admin" /\ r2.status \in SevenStatuses
        \* 404 is answered only after the lookup, hence never to another value
        /\ (Acts(s) /\ r2 = Failed("status", 404))
           => r.kind = "status" /\ r.pc = "loaded" /\ r.doc = <<>>
              /\ r.status \in SevenStatuses
        \* a request that is refused changes no order
        /\ (Acts(s) /\ r2.kind = "status" /\ r2.code >= 400) => orders' = orders

(* C16: setStatus goes on to the lookup only for an admin and only with one of
   the seven status values: a request of another caller or with another value
   ends before the lookup (so an unknown order with a bad value is never
   answered 404), no order changes in a request that is refused, and the
   status of every stored order is one of the seven values. *)
C16_SetStatusRefusals ==
    []StoredStatusIsOfTheSeven /\ [][SetStatusGate]_vars

(* Before any order exists a request has been answered 400: its order cannot
   have been found, and yet the answer is not 404; another request was refused
   with 403. *)
C16_Witness ==
    \E s, t \in Slots :
        /\ slots[s] = Failed("status", 400)
        /\ slots[t] = Failed("status", 403)
        /\ orders = <<>>

(* C17: for every stored order, the lookup of each route gives for the order
   number what it gives for the id: the lookup of setStatus (findById with the
   orderNumber fallback) and the findById of cancel, addMessage and
   GET /orders/:id both find the same order. *)
C17_OrderNumberFindsTheOrder ==
    \A i \in OrderIds :
        /\ lookupOrder(byNumber(orders[i].orderNumber)) = lookupOrder(byId(i))
        /\ findById(byNumber(orders[i].orderNumber)) = findById(byId(i))

(* The step in which the create request of slot s stores its order. *)
Stores(s) ==
    /\ slots[s].kind = "create" /\ slots[s].pc = "item"
    /\ slots'[s].pc = "done" /\ slots'[s].code = 201

(* C18: the order a createOrder request stores is new in the store, has status
   pending, an empty communication log, no actualDeliveryDate, at least one
   item, and the caller of the request as its customer; and an order comes
   into the store in no other way. *)
C18_NewOrderIsPending ==
    [][/\ \A s \in Slots :
            Stores(s) =>
                /\ Len(orders') = Len(orders) + 1
                /\ IsPrefix(orders, orders')
                /\ LET o == orders'[Len(orders')] IN
                   /\ o.status = "pending"
                   /\ o.communication = <<>>
                   /\ o.actualDeliveryDate = Unset
                   /\ Len(o.items) >= 1
                   /\ o.customer = slots[s].caller
       /\ Len(orders') # Len(orders) => \E s \in Slots : Stores(s)
    ]_vars

(* Two customers have placed an order each, the second while the first was
   being placed; each order is its caller's and is as it was stored. *)
C18_Witness ==
    /\ Len(orders) = 2
    /\ Succeeded(1, "create") /\ Succeeded(2, "create")
    /\ slots[1].caller # slots[2].caller
    /\ \A i \in OrderIds :
         /\ orders[i].status = "pending" /\ orders[i].communication = <<>>
         /\ orders[i].actualDeliveryDate = Unset /\ Len(orders[i].items) = 1
    /\ \E i \in OrderIds : orders[i].customer = slots[1].caller
    /\ \E i \in OrderIds : orders[i].customer = slots[2].caller

QuantitiesArePositive ==
    \A i \in OrderIds :
        /\ \A k \in DOMAIN orders[i].items : orders[i].items[k].quantity >= 1
        /\ orders[i].pricing.subtotal >= 0

DefaultQuantityIsOne ==
    \A s \in Slots :
        LET r == slots[s] IN
        (/\ r.kind = "create" /\ r.pc = "item" /\ slots'[s] # slots[s]
         /\ Resolves(r.items[r.idx], r.product)
         /\ r.items[r.idx].quantity = 0
         /\ slots'[s].code < 400)
        => slots'[s].orderItems[r.idx].quantity = 1

(* C19: the quantity of every item of every stored order is a positive
   integer and the subtotal is not negative; an item whose quantity is absent
   or falsy goes into the order with quantity 1. *)
C19_QuantityIsPositive ==
    []QuantitiesArePositive /\ [][DefaultQuantityIsOne]_vars

(* An order is stored whose request gave no quantity for an item, with
   quantity 1 for that item. *)
C19_Witness ==
    \E s \in Slots, i \in OrderIds :
        /\ Succeeded(s, "create")
        /\ orders[i].items = slots[s].orderItems
        /\ \E k \in DOMAIN slots[s].items :
             slots[s].items[k].quantity = 0 /\ orders[i].items[k].quantity = 1

(* The tier of a requested item as the claim resolves it. *)
RequestedTier(item) ==
    IF item.tier # "" THEN item.tier
    ELSE IF item.packageType # "" THEN item.packageType ELSE "base"

(* The options of a requested item in the order the request gives them. *)
AsSupplied(pairs) ==
    [k \in DOMAIN pairs |-> [optionName |-> pairs[k][1], selectedValue |-> pairs[k][2]]]

TierDecidesTheTurn ==
    \A s \in Slots :
        LET r == slots[s]
            item == r.items[r.idx]
            tier == RequestedTier(item)
            priceMap == r.product[1]
            invalid == tier \notin DOMAIN priceMap \/ priceMap[tier] = 0
        IN
        (r.kind = "create" /\ r.pc = "item" /\ slots'[s] # slots[s] /\ r.product # <<>>)
        => (invalid <=> slots'[s] = Failed("create", 400))

ItemIsStoredAsResolved ==
    \A s \in Slots :
        LET r == slots[s]
            item == r.items[r.idx]
            tier == RequestedTier(item)
        IN
        (/\ r.kind = "create" /\ r.pc = "item" /\ slots'[s] # slots[s]
         /\ slots'[s].code < 400)
        => LET stored == slots'[s].orderItems[r.idx] IN
           /\ stored.packageType = tier
           /\ stored.price = r.product[1][tier]
           /\ stored.customizations = AsSupplied(item.customization)

(* C20: in the turn of an item whose product exists, the request ends with 400
   exactly when the tier (item.tier, else item.packageType, else base) is no
   key of the product's price map or has a falsy price there; otherwise the
   item goes into the order with that tier as packageType, the price of that
   tier, and its options as {optionName, selectedValue} pairs in the order the
   request gives them. *)
C20_TierAndOptionsOfAnItem ==
    [][TierDecidesTheTurn /\ ItemIsStoredAsResolved]_vars

(* The orders a dashboard request reads its revenue from, and the request
   answering. *)
RECURSIVE RecomputedTotals(_)
RecomputedTotals(store) ==
    IF store = <<>> THEN 0
    ELSE TaxDen * SumItems(store[1].items) + store[1].pricing.tax
         + RecomputedTotals(Tail(store))

RECURSIVE StoredTotals(_)
StoredTotals(store) ==
    IF store = <<>> THEN 0 ELSE store[1].pricing.total + StoredTotals(Tail(store))

Answers(s) == AnalyticsAt(s, "revenueAgg") /\ slots'[s].pc = "done"

(* C21: the total revenue a dashboard response reports is the sum, over the
   orders stored when it is computed, of the subtotal recomputed from the
   items plus the order's tax, which for orders placed by createOrder is the
   sum of the stored pricing.total. *)
C21_RevenueIsSubtotalPlusTax ==
    [][\A s \in Slots :
        Answers(s) =>
            /\ slots'[s].totalRevenue = RecomputedTotals(orders)
            /\ slots'[s].totalRevenue = StoredTotals(orders)]_vars

(* What a product sold: the quantities of the items that name it, over the
   items of all orders laid end to end. *)
RECURSIVE AllItems(_)
AllItems(store) == IF store = <<>> THEN <<>> ELSE store[1].items \o AllItems(Tail(store))

RECURSIVE SumQuantities(_)
SumQuantities(items) ==
    IF items = <<>> THEN 0 ELSE items[1].quantity + SumQuantities(Tail(items))

Sold(p) == SumQuantities(SelectSeq(AllItems(orders), LAMBDA i : i.product = p))

Listed(l) == { l[k].id : k \in DOMAIN l }

ReadsTopProducts(s) == AnalyticsAt(s, "topProducts") /\ slots'[s].pc = "totalOrders"

(* C22: the top-selling list has at most 5 entries; each names a product of
   the catalog once, with the sum of the quantities ordered of it over all
   orders; the sums do not increase along the list; and no product outside
   the list sold more than a product in it. *)
C22_TopSellingProducts ==
    [][\A s \in Slots :
        ReadsTopProducts(s) =>
            LET l == slots'[s].topProducts IN
            /\ Len(l) <= 5
            /\ \A k \in DOMAIN l :
                 /\ l[k].id \in ProductIds
                 /\ l[k].product = products[l[k].id]
                 /\ l[k].sold = Sold(l[k].id)
            /\ \A j, k \in DOMAIN l : j < k => l[j].id # l[k].id /\ l[j].sold >= l[k].sold
            /\ \A p \in ProductIds \ Listed(l) : \A k \in DOMAIN l : Sold(p) <= l[k].sold]_vars

(* A dashboard request holds a list of five in which the sixth product counts
   the quantities of two orders, while a product that sold less is left out. *)
C22_Witness ==
    \E s \in Slots :
        /\ slots[s].kind = "analytics" /\ slots[s].pc = "done" /\ slots[s].code = 200
        /\ Len(slots[s].topProducts) = 5
        /\ \E k \in 1..5 : slots[s].topProducts[k].id = "p6" /\ slots[s].topProducts[k].sold = 3
        /\ \E p \in ProductIds \ Listed(slots[s].topProducts) : Sold(p) = 1

(* Reading a CSV text back: every field stands between double quotes, two
   double quotes inside it are one character of the field, a comma after the
   closing quote starts the next field and a line feed the next row.  A text
   of any other shape reads as <<Malformed>>. *)
Malformed == <<"malformed">>

QuotesUpTo(text, j) == Cardinality({ i \in 2..j : text[i] = Quote })

(* The closing quote of the field a text begins with: a double quote that is
   no first half of a pair. *)
Closes(text, j) ==
    /\ text[j] = Quote
    /\ QuotesUpTo(text, j) % 2 = 1
    /\ (j = Len(text) \/ text[j + 1] # Quote)

(* The characters between the quotes of a field, pairs of quotes made one. *)
Unquoted(body) ==
    LET kept == { i \in DOMAIN body :
                    body[i] # Quote
                    \/ Cardinality({ x \in 1..i : body[x] = Quote }) % 2 = 1 }
    IN  [k \in 1..Cardinality(kept) |->
            body[CHOOSE i \in kept : Cardinality({ x \in kept : x <= i }) = k]]

RECURSIVE ParseCsv(_, _)
ParseCsv(text, row) ==
    IF text = <<>> \/ text[1] # Quote \/ ~(\E j \in 2..Len(text) : Closes(text, j))
    THEN <<Malformed>>
    ELSE LET j == CHOOSE j \in 2..Len(text) :
                    Closes(text, j) /\ \A k \in 2..(j - 1) : ~Closes(text, k)
             field == Unquoted(SubSeq(text, 2, j - 1))
             rest == SubSeq(text, j + 2, Len(text))
         IN  IF j = Len(text) THEN <<Append(row, field)>>
             ELSE IF text[j + 1] = Comma THEN ParseCsv(rest, Append(row, field))
             ELSE IF text[j + 1] = LineFeed THEN <<Append(row, field)>> \o ParseCsv(rest, <<>>)
             ELSE <<Malformed>>

ReadBack(text) == ParseCsv(text, <<>>)

Sends(s) == slots[s].kind = "export" /\ slots[s].pc = "finding" /\ slots'[s].pc = "done"

(* C23: read back, the exported text is the header row followed by the rows
   the handler made, field for field as they were before quoting; there are
   as many rows as stored orders, and every stored order's number stands at
   the head of exactly one of them. *)
C23_ExportReadsBack ==
    [][\A s \in Slots :
        Sends(s) =>
            /\ ReadBack(slots'[s].csv) = <<csvHeaders>> \o slots'[s].rows
            /\ Len(slots'[s].rows) = Len(orders)
            /\ \A i \in 1..Len(orders) :
                 Cardinality({ k \in DOMAIN slots'[s].rows :
                                 slots'[s].rows[k][1] = orders[i].orderNumber }) = 1]_vars

(* An export of two orders went out, with a double quote and a line feed
   inside fields. *)
C23_Witness ==
    \E s \in Slots :
        /\ slots[s].kind = "export" /\ slots[s].code = 200
        /\ Len(slots[s].rows) = 2
        /\ \E k \in 1..2 : \E f \in 1..11 : \E j \in DOMAIN slots[s].rows[k][f] :
             slots[s].rows[k][f][j] = Quote
        /\ \E k \in 1..2 : \E f \in 1..11 : \E j \in DOMAIN slots[s].rows[k][f] :
             slots[s].rows[k][f][j] = LineFeed

(* What the fields of an order's row are to show: the total as a number with
   its tenths, and every item with its stored tier. *)
AmountText(n) ==
    decimal(n \div TaxDen) \o (IF n % TaxDen = 0 THEN <<>> ELSE <<".">> \o decimal(n % TaxDen))

ItemText(item) ==
    productName(item.product) \o <<" (", item.packageType, Comma, " Qty: ">>
    \o decimal(item.quantity) \o <<")">>

RowOf(rows, order) == rows[CHOOSE k \in DOMAIN rows : rows[k][1] = order.orderNumber]

(* C24: in the row of every exported order the Status field is the order's
   status, the Total Amount field its stored total, the Items Count field the
   number of its items, and the Products field its items as
   'name (tier, Qty: n)' with the stored tier and quantity, joined by '; '. *)
C24_RowShowsTheOrder ==
    [][\A s \in Slots :
        Sends(s) =>
            \A i \in 1..Len(orders) :
                LET row == RowOf(slots'[s].rows, orders[i]) IN
                /\ row[4] = <<orders[i].status>>
                /\ row[5] = AmountText(orders[i].pricing.total)
                /\ row[6] = decimal(Len(orders[i].items))
                /\ row[7] = joinWith([k \in DOMAIN orders[i].items |->
                                        ItemText(orders[i].items[k])], <<"; ">>)]_vars

(* The steps of a request through connectDB, told from its slot. *)
CallsConnectDB(s) ==
    started' = started + 1 /\ Free(s) /\ \A t \in Slots : t < s => ~Free(t)

StartsAttempt(s) == CallsConnectDB(s) /\ slots'[s].pc = "connecting"

AttemptFails(s) ==
    slots[s].kind = "request" /\ slots[s].pc = "connecting" /\ slots'[s].code = 500

Attempts == { s \in Slots : slots[s].kind = "request" /\ slots[s].pc = "connecting" }

(* C25: a call of connectDB made while the flag is set returns the connection
   and starts no attempt; an error or disconnected event clears the flag; a
   call made while the flag is clear starts an attempt; and an attempt that
   fails answers its request with 500, leaves the flag clear and the
   middleware open to the next request. *)
C25_ConnectionIsCached ==
    [][/\ \A s \in Slots :
            /\ CallsConnectDB(s) /\ isConnected =>
                 slots'[s].pc = "done" /\ slots'[s].code = 200 /\ isConnected'
            /\ CallsConnectDB(s) /\ ~isConnected => StartsAttempt(s)
            /\ AttemptFails(s) => slots'[s].pc = "done" /\ ~isConnected'
       /\ (started' = started /\ slots' = slots) => ~isConnected']_vars

(* C26: never are two connection attempts in flight, and the handlers for
   error and disconnected are registered at most once. *)
C26_OneAttemptOneRegistration ==
    Cardinality(Attempts) <= 1 /\ listeners <= 1

(* The videos on disk, and those some stored podcast plays. *)
VideoFiles == { f \in files : f[1] = "video" }

PlayedVideos ==
    { podcasts[i][1].videoUrl.file :
        i \in { j \in 1..Len(podcasts) : podcasts[j] # <<>> /\ podcasts[j][1].videoUrl.local } }

Quiet == \A s \in Slots : slots[s].pc = "done"

(* An update takes the video of a podcast that has an uploaded one to another
   file or to an address elsewhere. *)
ReplacesVideo(s) ==
    /\ slots[s].kind = "podcastUpdate" /\ slots[s].pc = "loaded" /\ slots'[s].pc = "saving"
    /\ slots[s].doc[1].videoType = "upload" /\ slots[s].doc[1].videoUrl.local
    /\ slots'[s].doc[1].videoUrl # slots[s].doc[1].videoUrl

(* C27: an update that replaces the uploaded video of a podcast deletes the
   file of the previous video; and whenever no request is in flight, every
   video file on disk is the video of a stored podcast. *)
C27_NoVideoFileIsLeftBehind ==
    /\ [](Quiet => VideoFiles \subseteq PlayedVideos)
    /\ [][\A s \in Slots :
            ReplacesVideo(s) => slots[s].doc[1].videoUrl.file \notin files']_vars

-----------------------------------------------------------------------------
(* Product visibility: routes/products.js                                  *)

(* Who GET /products and GET /products/:id are asked by; optionalAuth leaves
   req.user unset for a request without a token. *)
Anonymous == "anonymous"

Visitors == Users \cup {Anonymous}

(* createdBy of a product: the account that posted it.  "u2" posted "p2" and
   holds the role 'user' now. *)
createdBy(p) == IF p = "p2" THEN "u2" ELSE "admin"

VisibilityRefs == {"p1", "p2", "p9"}

(* Product.findById(id): the document with its isActive, or nothing. *)
findActiveById(p) ==
    IF p \in DOMAIN products THEN <<[id |-> p, isActive |-> isActive[p]]>> ELSE <<>>

(* Product.find({ isActive: true }) and countDocuments of the same query. *)
activeProducts == {p \in DOMAIN products : isActive[p]}

visibleToAll(caller, doc) == TRUE

(* The test of GET /products/:id, negated: an inactive product is shown to an
   admin and to its creator only. *)
visibleTo(caller, doc) ==
    ~ (/\ ~doc.isActive
       /\ \/ caller = Anonymous
          \/ role(caller) # "admin" /\ caller # createdBy(doc.id))

(* save() of a product whose isActive was assigned: $set when it changed. *)
saveActive(stored, loaded, assigned) ==
    IF assigned # loaded THEN assigned ELSE stored

(* DELETE /products/:id and PATCH /products/:id/toggle-status up to the
   document they load: 403 for a caller who is no admin. *)
loadProduct(kind, caller, ref) ==
    IF ~authorize(caller, "admin")
    THEN Failed(kind, 403)
    ELSE [kind |-> kind, pc |-> "loaded", code |-> 0,
          ref |-> ref, doc |-> findActiveById(ref)]

(* product.isActive = false *)
deactivated(loaded) == FALSE

(* product.isActive = !product.isActive *)
toggled(loaded) == ~loaded

(* DELETE /products/:id: the request with its findById, then 404 without a
   document, else the assignment and the save. *)
ProductDeleteBegin(s) ==
    /\ Arrives(s)
    /\ \E caller \in {"admin", "u1"}, ref \in VisibilityRefs :
         slots' = [slots EXCEPT ![s] = loadProduct("productDelete", caller, ref)]
    /\ started' = started + 1
    /\ UNCHANGED <<products, orders, now, isActive, isConnected, listeners, podcasts, files>>

ProductDeleteSave(s) ==
    LET r == slots[s] IN
    /\ r.kind = "productDelete" /\ r.pc = "loaded"
    /\ IF r.doc = <<>>
       THEN /\ slots' = Respond(s, 404)
            /\ UNCHANGED isActive
       ELSE /\ isActive' = [isActive EXCEPT ![r.ref] =
                               saveActive(@, r.doc[1].isActive, deactivated(r.doc[1].isActive))]
            /\ slots' = Respond(s, 200)
    /\ UNCHANGED <<products, orders, now, started, isConnected, listeners, podcasts, files>>

(* PATCH /products/:id/toggle-status, the same way. *)
ToggleStatusBegin(s) ==
    /\ Arrives(s)
    /\ \E caller \in {"admin", "u1"}, ref \in VisibilityRefs :
         slots' = [slots EXCEPT ![s] = loadProduct("toggleStatus", caller, ref)]
    /\ started' = started + 1
    /\ UNCHANGED <<products, orders, now, isActive, isConnected, listeners, podcasts, files>>

ToggleStatusSave(s) ==
    LET r == slots[s] IN
    /\ r.kind = "toggleStatus" /\ r.pc = "loaded"
    /\ IF r.doc = <<>>
       THEN /\ slots' = Respond(s, 404)
            /\ UNCHANGED isActive
       ELSE /\ isActive' = [isActive EXCEPT ![r.ref] =
                               saveActive(@, r.doc[1].isActive, toggled(r.doc[1].isActive))]
            /\ slots' = Respond(s, 200)
    /\ UNCHANGED <<products, orders, now, started, isConnected, listeners, podcasts, files>>

(* PATCH /products/admin/activate-all: the request, then its updateMany. *)
ActivateAllBegin(s) ==
    /\ Arrives(s)
    /\ \E caller \in {"admin", "u1"} :
         slots' = [slots EXCEPT ![s] =
            IF ~authorize(caller, "admin")
            THEN Failed("activateAll", 403)
            ELSE [kind |-> "activateAll", pc |-> "updating", code |-> 0]]
    /\ started' = started + 1
    /\ UNCHANGED <<products, orders, now, isActive, isConnected, listeners, podcasts, files>>

ActivateAllUpdate(s) ==
    /\ slots[s].kind = "activateAll" /\ slots[s].pc = "updating"
    /\ isActive' = [p \in DOMAIN isActive |-> TRUE]
    /\ slots' = Respond(s, 200)
    /\ UNCHANGED <<products, orders, now, started, isConnected, listeners, podcasts, files>>

(* GET /products/:id: the request with its findById, then the answer. *)
ProductGetBegin(s) ==
    /\ Arrives(s)
    /\ \E caller \in Visitors, ref \in VisibilityRefs :
         slots' = [slots EXCEPT ![s] =
            [kind |-> "productGet", pc |-> "loaded", code |-> 0, caller |-> caller,
             ref |-> ref, doc |-> findActiveById(ref)]]
    /\ started' = started + 1
    /\ UNCHANGED <<products, orders, now, isActive, isConnected, listeners, podcasts, files>>

ProductGetAnswer(s) ==
    LET r == slots[s] IN
    /\ r.kind = "productGet" /\ r.pc = "loaded"
    /\ slots' = [slots EXCEPT ![s] =
            [@ EXCEPT !.pc = "done",
                      !.code = IF r.doc = <<>> THEN 404
                               ELSE IF ~visibleTo(r.caller, r.doc[1]) THEN 404
                               ELSE 200]]
    /\ UNCHANGED <<products, orders, now, started, isActive, isConnected, listeners,
                   podcasts, files>>

(* GET /products without filters, first page: the find, then the count. *)
ProductListBegin(s) ==
    /\ Arrives(s)
    /\ \E caller \in Visitors :
         slots' = [slots EXCEPT ![s] =
            [kind |-> "productList", pc |-> "found", code |-> 0, caller |-> caller,
             products |-> activeProducts, total |-> 0]]
    /\ started' = started + 1
    /\ UNCHANGED <<products, orders, now, isActive, isConnected, listeners, podcasts, files>>

ProductListCount(s) ==
    /\ slots[s].kind = "productList" /\ slots[s].pc = "found"
    /\ slots' = [slots EXCEPT ![s] = [@ EXCEPT !.pc = "done", !.code = 200,
                                                !.total = Cardinality(activeProducts)]]
    /\ UNCHANGED <<products, orders, now, started, isActive, isConnected, listeners,
                   podcasts, files>>

(* What the orders of this part are placed with. *)
VisibilityBodies ==
    { mkBody(<<mkItem("p1", "", "", 1)>>, <<mkAddress("a", "e", "t")>>),
      mkBody(<<mkItem("p2", "", "", 1)>>, <<mkAddress("a", "e", "t")>>) }

(* Products being deleted, toggled, activated and read while orders are
   placed for them. *)
VisibilityNext ==
    \E s \in Slots :
        \/ CreateBegin(s, CreateCallers, VisibilityBodies, MaxOrders) \/ CreateItem(s)
        \/ ProductDeleteBegin(s) \/ ProductDeleteSave(s)
        \/ ToggleStatusBegin(s) \/ ToggleStatusSave(s)
        \/ ActivateAllBegin(s) \/ ActivateAllUpdate(s)
        \/ ProductGetBegin(s) \/ ProductGetAnswer(s)
        \/ ProductListBegin(s) \/ ProductListCount(s)

VisibilitySpec == Init /\ [][VisibilityNext]_vars

-----------------------------------------------------------------------------
(* Soft delete of products                                                 *)

(* The request on slot s takes its last step. *)
Finishes(s, kind) ==
    /\ slots[s].kind = kind /\ slots[s].pc # "done"
    /\ slots'[s].kind = kind /\ slots'[s].pc = "done"

(* No product is removed, and every item of a stored order names one. *)
ItemsResolve ==
    /\ DOMAIN products = ProductIds
    /\ \A i \in DOMAIN orders : \A k \in DOMAIN orders[i].items :
         findProductById(orders[i].items[k].product) # <<>>

(* DELETE writes nothing but isActive = false of its product, and does write
   it when the product it loaded was active. *)
DeleteOnlyDeactivates(s) ==
    Finishes(s, "productDelete") =>
        /\ products' = products /\ orders' = orders
        /\ \A p \in ProductIds :
             isActive'[p] # isActive[p] => p = slots[s].ref /\ ~isActive'[p]
        /\ slots'[s].code = 200 /\ slots[s].doc[1].isActive => ~isActive'[slots[s].ref]

(* The list leaves out what is inactive when it is read. *)
ListHidesInactive(s) ==
    slots'[s] # slots[s] /\ slots'[s].kind = "productList" /\ slots'[s].pc = "found" =>
        slots'[s].products = {p \in ProductIds : isActive[p]}

Outsider(caller, p) == caller = Anonymous \/ (caller # "admin" /\ caller # createdBy(p))

(* The single read finds the product as it is stored, and answers 404 for an
   inactive one unless an admin or its creator asks. *)
GetHidesInactive(s) ==
    /\ slots'[s] # slots[s] /\ slots'[s].kind = "productGet" /\ slots'[s].pc = "loaded"
         /\ slots'[s].ref \in ProductIds =>
            slots'[s].doc = <<[id |-> slots'[s].ref, isActive |-> isActive[slots'[s].ref]]>>
    /\ Finishes(s, "productGet") /\ slots[s].doc # <<>> =>
         slots'[s].code =
            IF ~slots[s].doc[1].isActive /\ Outsider(slots[s].caller, slots[s].ref)
            THEN 404 ELSE 200

(* An inactive product becomes active by toggle-status or activate-all only. *)
OnlyReactivatedByAdmin ==
    \A p \in ProductIds : ~isActive[p] /\ isActive'[p] =>
        \E s \in Slots : \/ Finishes(s, "toggleStatus") /\ slots[s].ref = p
                         \/ Finishes(s, "activateAll")

(* C28: DELETE /products/:id sets isActive to false and removes nothing, so
   the items of stored orders still name a product; an inactive product is
   left out of GET /products, GET /products/:id answers 404 for it to
   everyone but an admin and its creator, and only toggle-status or
   activate-all makes it active again. *)
C28_DeleteIsSoft ==
    /\ []ItemsResolve
    /\ [][/\ \A s \in Slots : /\ DeleteOnlyDeactivates(s)
                              /\ ListHidesInactive(s)
                              /\ GetHidesInactive(s)
          /\ OnlyReactivatedByAdmin]_vars

(* A product an order names was deleted, and then asked for by a customer
   who got 404. *)
C28_Witness ==
    /\ ~isActive["p1"]
    /\ \E i \in DOMAIN orders : orders[i].items[1].product = "p1"
    /\ \E s, t \in Slots :
         /\ slots[s].kind = "productDelete" /\ slots[s].pc = "done"
         /\ slots[s].code = 200 /\ slots[s].ref = "p1"
         /\ slots[t].kind = "productGet" /\ slots[t].pc = "done"
         /\ slots[t].code = 404 /\ slots[t].ref = "p1" /\ slots[t].caller = "u1"

-----------------------------------------------------------------------------
(* Cancel against a concurrent completion                                  *)

(* The cancel request on slot s writes what it assigned. *)
CancelWrites(s) ==
    slots[s].kind = "cancel" /\ slots[s].pc = "saving" /\ slots'[s].pc = "done"

(* C29: no cancel request that answers 200 turns the stored status of an
   order from completed to cancelled, whatever setStatus requests run between
   its read and its save. *)
C29_CancelNeverOverwritesCompleted ==
    [][\A s \in Slots : CancelWrites(s) /\ slots'[s].code = 200 =>
          \A i \in DOMAIN orders :
              ~(orders[i].status = "completed" /\ orders'[i].status = "cancelled")]_vars

-----------------------------------------------------------------------------
(* Status breakdown against the total                                      *)

RECURSIVE SumCounts(_)
(* The sum of the counts of a status breakdown. *)
SumCounts(stats) ==
    IF stats = {} THEN 0
    ELSE LET e == CHOOSE x \in stats : TRUE IN e.count + SumCounts(stats \ {e})

(* C30: in every dashboard response the counts of orderStatusStats add up to
   totalOrders, whatever createOrder and cancel requests run meanwhile. *)
C30_StatusCountsSumToTotal ==
    \A s \in Slots :
        slots[s].kind = "analytics" /\ slots[s].pc = "done" /\ slots[s].code = 200 =>
            SumCounts(slots[s].orderStatusStats) = slots[s].totalOrders

====
